---- MODULE Spec2Model ----
(***************************************************************************)
(* Model of the real-time telemetry aggregator: the scalar ring buffer     *)
(* (buffer.Ring), the metric registry (buffer.Registry), the ingest        *)
(* handler (ingest.Server) and the WebSocket hub (ws.Hub, ws.Client).      *)
(*                                                                         *)
(* Each subsystem has its own specification over its own group of          *)
(* variables; the other groups stay at their initial value:                *)
(*   Spec      the ring under sequential Push calls                        *)
(*   SpecConc  the ring with Push split into its two memory steps and a    *)
(*             concurrent reader                                           *)
(*   SpecReg   two concurrent ingest streams and the registry              *)
(*   SpecSnap  one ingest stream, the registry and LatestSnapshot          *)
(*   SpecHub   the hub loop, the broadcast loop and the client pumps       *)
(***************************************************************************)
EXTENDS Integers, Sequences, FiniteSets, TLC

VARIABLES
    ring,      \* the Ring under test: [data, idx, size]
    pushed,    \* history: the samples whose Push has completed, in order
    started,   \* history: number of Push calls that have begun
    wpc,       \* per writer, position inside Push: "idle" | "write" | "write2"
    wslot,     \* per writer, local i (the reserved index)
    wsample,   \* per writer, argument s
    wfield,    \* per writer, the field still to be stored in "write2"
    rpc,       \* reader position: "idle" | "latest" | "loop" | "done"
    rop,       \* reader operation: "Latest" | "SnapshotLast" | "Snapshot"
    ridx,      \* reader local currentIdx
    rpos,      \* reader loop variable i
    rres,      \* reader result so far: [samples, ok]
    rseen,     \* history: the completed pushes when the reader loaded idx
    \* ---- registry and ingest (SpecReg)
    registry,  \* Registry maps: [gauges, counters, histograms], key -> ring (0: none)
    regMu,     \* Registry.mu: number of read-lock holders (write sections are atomic)
    heap,      \* the rings allocated so far, by identity
    updates,   \* Hub.updates channel content
    spc,       \* per stream, position in StreamTelemetry / processMetric
    sleft,     \* per stream, samples of the current batch not yet processed
    scur,      \* per stream, the sample being processed
    sring,     \* per stream, local `ring`
    sslot,     \* per stream, local i of Ring.Push
    lpc,       \* LatestSnapshot position: "idle" | "iter" | "read" | "done"
    ltodo,     \* LatestSnapshot: map entries still to visit
    lcur,      \* LatestSnapshot: the entry whose ring.Latest() is running
    lidx,      \* LatestSnapshot: currentIdx of the running ring.Latest()
    lsnap,     \* LatestSnapshot: the snapshot built so far
    tokens,    \* history: number of valued samples dispatched
    args,      \* history: per (variant, key), the samples passed to Push
    lastRes,   \* history: per (variant, key), the sample of the latest reservation
    bound,     \* history: per key, the variant of the sample that made its first ring
    offPushed, \* history: pushes of a sample whose variant is not the bound one
    slowHits,  \* history: double-checks that found the ring already created
    lquiet,    \* history: no ingest step ran since the running LatestSnapshot began
    batches,   \* history: per stream, the number of batches Recv returned
    attempts,  \* history: per stream, the number of NotifyUpdate calls
    acks,      \* history: per stream, the number of Acks sent
    \* ---- hub (SpecHub)
    hclients,  \* Hub.clients: the live set
    bchan,     \* Hub.broadcast channel content
    runpc,     \* Hub.Run position: "select" | "reg" | "unreg" | "bc"
    runarg,    \* Hub.Run: the client just received
    runmsg,    \* Hub.Run: the message just received
    cpc,       \* per client, HandleWebSocket position: "none" | "registering" | "connected"
    rp,        \* per client, readPump position: "off" | "read" | "unreg" | "done"
    wp,        \* per client, writePump position: "off" | "wait" | "done"
    conn,      \* per client, the connection: "open" | "closed"
    send,      \* per client, the content of the send channel (the mailbox)
    closed,    \* per client, whether the send channel has been closed
    subs,      \* per client, Client.subs (the filter)
    bpc,       \* broadcastSnapshot position: "idle" | "lock" | "iter"
    bsnap,     \* broadcastSnapshot: local snapshot
    btodo,     \* broadcastSnapshot: clients the range loop has not visited
    ticks,     \* number of ticks fired
    hpanic,    \* a send on, or a close of, a closed channel happened (the process panics)
    wbuf,      \* per client, writePump: the messages written to the open frame writer w
    wn,        \* per client, writePump: the batch loop's remaining count n - i
    drops,     \* per client, the drop counter of the mailbox (no statement updates one)
    closes,    \* history: per client, the number of close(client.send) executed
    unregs,    \* history: per client, the number of unregister events Hub.Run handled
    offered,   \* history: per client, the ticks whose message broadcastSnapshot offered
    rejected,  \* history: per client, the number of offers the mailbox did not accept
    taken,     \* history: per client, the number of messages writePump received
    wire,      \* history: per client, the frames written to the connection, in order
    bcur,      \* the client whose message buildClientMessage is building (it holds
               \* client.subMu.RLock()), or NoClient
    bempty,    \* what len(client.subs) == 0 evaluated to in that call
    belapsed,  \* clock units gone by since the tick, at the last time.Now() of a build
    built,     \* history: per client, the last call of buildClientMessage
    ctl,       \* history: per client, the inbound messages readPump handled, in order
    mainpc,    \* where main is: "wait" (blocked on sigChan), "grpc", "ws", "metrics"
               \* (about to call that server's stop), "exited" (main has returned)
    sigTicks,  \* history: the number of ticks fired when the signal arrived
    apiKeys,   \* Authenticator.apiKeys (the set of the keys mapped to true)
    enabled,   \* Authenticator.enabled
    areq,      \* history: per stream, the outcome of its pass through StreamInterceptor
    wsaw,      \* history: per client, the mailbox as writePump found it at its
               \* latest receive, and whether it was closed
    wbytes,    \* history: per client, the bytes of the frames written, in order
    call,      \* the last call of a read-only operation: its name, arguments and result
    \* ---- Go agent (SpecAgent)
    agent,     \* one agent Histogram, the goroutines inside its methods, and the
               \* history of its Record and Snapshot calls
    \* ---- dashboard (SpecWs)
    wsc        \* the dashboard's WebSocketClient, the sockets it created, the
               \* timers it set, and the history of its calls

ringVars == <<ring, pushed>>
concVars == <<started, wpc, wslot, wsample, wfield, rpc, rop, ridx, rpos, rres, rseen>>
streamVars == <<spc, sleft, scur, sring, sslot>>
snapVars == <<lpc, ltodo, lcur, lidx, lsnap>>
regHist == <<tokens, args, lastRes, bound, offPushed, slowHits>>
ingHist == <<batches, attempts, acks>>
regVars == <<registry, regMu, heap, updates, streamVars, snapVars, regHist, ingHist,
             lquiet>>
lifeHist == <<closes, unregs>>
offerHist == <<offered, rejected>>
wireHist == <<taken, wire>>
hubHist == <<lifeHist, offerHist, wireHist>>
buildVars == <<bcur, bempty, belapsed, built>>
ctlHist == <<ctl>>
dashVars == <<buildVars, ctlHist>>
mainVars == <<mainpc, sigTicks>>
authVars == <<apiKeys, enabled, areq>>
frameHist == <<wsaw, wbytes>>
extVars == <<call, agent, wsc>>
wrVars == <<wbuf, wn>>
hubVars == <<hclients, bchan, runpc, runarg, runmsg, cpc, rp, wp, conn, send, closed, subs,
             bpc, bsnap, btodo, ticks, hpanic, wrVars, drops, extVars, frameHist, authVars, mainVars, dashVars, hubHist>>
vars == <<ringVars, concVars, regVars, hubVars>>

\* ------------------------------------------------------------------ bounds
MaxCap == 4        \* largest ring capacity explored by Spec
MaxPush == 6       \* most Push calls in one behaviour of Spec
ConcCap == 2       \* ring capacity in SpecConc
MaxConcPush == 3   \* most Push calls in one behaviour of SpecConc
RegCap == 2        \* capacity of every registry ring in SpecReg
MaxBatch == 2      \* most samples in one batch
MaxTokens == 2     \* most valued samples ingested in one behaviour
UpdCap == 1        \* capacity of Hub.updates in the model
MailboxCap == 1    \* capacity of a client's send channel in the model
BcastCap == 1      \* capacity of Hub.broadcast in the model
MaxTicks == 1      \* most ticks of the broadcast loop in one behaviour
OverCap == 2       \* capacity of a client's send channel in SpecOverload
OverTicks == 5     \* most ticks in one behaviour of SpecOverload
MaxUnregs == 2     \* most unregister events for one client in one behaviour of SpecHubOps
WordBits == 4      \* width of the scaled 64-bit words

Min(a, b) == IF a < b THEN a ELSE b
Range(f) == {f[x] : x \in DOMAIN f}

\* ------------------------------------------------------------------- Ring
\* Sample{} : the zero value of the struct, the content of a fresh slot.
ZeroSample == [Ts |-> 0, Val |-> 0]

\* NewRing(size): data is a zeroed slice of `size` slots, idx starts at 0.
NewRing(size) ==
    [data |-> [i \in 0..(size - 1) |-> ZeroSample], idx |-> 0, size |-> size]

\* r.idx.Add(1): the ring after the atomic increment (the caller keeps the
\* old value r.idx as its reserved index i).
IdxAdd(r) == [r EXCEPT !.idx = @ + 1]

\* r.data[i%r.size] = s
SlotWrite(r, i, s) == [r EXCEPT !.data[i % r.size] = s]

\* The store of a single field of r.data[i%r.size]: a Sample is two machine
\* words and the plain store is not atomic with respect to a racing reader.
FieldWrite(r, i, f, v) == [r EXCEPT !.data[i % r.size][f] = v]

\* Ring.Push as one uninterrupted call.
Push(r, s) == SlotWrite(IdxAdd(r), r.idx, s)

\* The loop `for i := start; i < currentIdx; i++ { append(result, data[i%size]) }`
RECURSIVE CopyRange(_, _, _)
CopyRange(r, i, end) ==
    IF i >= end THEN <<>> ELSE <<r.data[i % r.size]>> \o CopyRange(r, i + 1, end)

\* start index of Ring.Snapshot
SnapshotStart(r, currentIdx) ==
    IF currentIdx >= r.size THEN currentIdx - r.size ELSE 0

\* Ring.Snapshot
Snapshot(r) == CopyRange(r, SnapshotStart(r, r.idx), r.idx)

\* Mutant of SnapshotLastCount: the clamp by the ring size is missing.
SnapshotLastCount_NoSizeClamp(r, currentIdx, n) ==
    IF n > currentIdx THEN currentIdx ELSE n

\* count of Ring.SnapshotLast: n clamped by size, then by currentIdx
\* (n >= 0; uint64(n) is n there).
SnapshotLastCount(r, currentIdx, n) ==
    LET c1 == IF n > r.size THEN r.size ELSE n
    IN  IF c1 > currentIdx THEN currentIdx ELSE c1

\* Ring.SnapshotLast
SnapshotLast(r, n) ==
    CopyRange(r, r.idx - SnapshotLastCount(r, r.idx, n), r.idx)

\* Mutant of LatestSlot: reads the slot at currentIdx instead of currentIdx-1.
LatestSlot_OffByOne(r, currentIdx) == r.data[currentIdx % r.size]

\* The slot Ring.Latest reads: r.data[(currentIdx-1)%r.size]
LatestSlot(r, currentIdx) == r.data[(currentIdx - 1) % r.size]

\* Mutant of Latest: reads the slot at idx instead of idx-1.
Latest_OffByOne(r) ==
    IF r.idx = 0
    THEN [s |-> ZeroSample, ok |-> FALSE]
    ELSE [s |-> r.data[r.idx % r.size], ok |-> TRUE]

\* Ring.Latest: (sample, present)
Latest(r) ==
    IF r.idx = 0
    THEN [s |-> ZeroSample, ok |-> FALSE]
    ELSE [s |-> LatestSlot(r, r.idx), ok |-> TRUE]

\* Ring.Count
Count(r) == r.idx

\* Ring.Len
RingLen(r) == IF r.idx > r.size THEN r.size ELSE r.idx

\* ------------------------------------------------------- Registry, ingest
\* MetricKey{Service, Name}; the streams of the model all carry service "s1".
Keys == {[Service |-> "s1", Name |-> n] : n \in {"x", "g"}}

\* The keys that the dashboard specifications load into the registry; the
\* last two have the same String().
DashKeys ==
    {[Service |-> "s1", Name |-> "a"], [Service |-> "s1", Name |-> "b"],
     [Service |-> "s1", Name |-> "a/b"], [Service |-> "s1/a", Name |-> "b"]}

\* Every key a registry map of the model may hold.
RegKeys == Keys \cup DashKeys

\* MetricKey.String(): fmt.Sprintf("%s/%s", k.Service, k.Name)
KeyString(k) == k.Service \o "/" \o k.Name

\* Stands for the float64 values that encoding/json refuses to encode (NaN,
\* +Inf, -Inf); the finite values of the model are naturals.
NonFinite == -1

\* The three maps of the Registry.
MapNames == {"gauges", "counters", "histograms"}
Entries == MapNames \X Keys

\* The variants of a sample (the oneof cases).
Variants == {"gauge", "counter", "histogram"}

\* HistogramData{} : the zero value (nil slices).
ZeroHist == [Ts |-> 0, Bounds |-> <<>>, Counts |-> <<>>]

\* NewHistogramRing(size)
NewHistogramRing(size) ==
    [data |-> [i \in 0..(size - 1) |-> ZeroHist], idx |-> 0, size |-> size]

\* HistogramRing.Push, under r.mu.Lock(): store at idx%size, then idx++.
HistPush(r, h) == [r EXCEPT !.data[r.idx % r.size] = h, !.idx = @ + 1]

\* HistogramRing.Latest, under r.mu.RLock().
HistLatest(r) ==
    IF r.idx = 0
    THEN [s |-> ZeroHist, ok |-> FALSE]
    ELSE [s |-> r.data[(r.idx - 1) % r.size], ok |-> TRUE]

\* NewRegistry(): three empty maps (0 stands for "no entry").
NewRegistry == [m \in MapNames |-> [k \in RegKeys |-> 0]]

\* The identity of the next allocated ring.
NextId(hp) == Cardinality(DOMAIN hp) + 1

\* The ring a Get*Ring call allocates for map m.
FreshRing(m) ==
    IF m = "histograms" THEN NewHistogramRing(RegCap) ELSE NewRing(RegCap)

\* Mutant of CreateIfAbsent: the double-check under the write lock is missing.
CreateIfAbsent_NoDoubleCheck(reg, hp, m, key) ==
    [registry |-> [reg EXCEPT ![m][key] = NextId(hp)],
     heap |-> hp @@ (NextId(hp) :> FreshRing(m)),
     ring |-> NextId(hp),
     found |-> FALSE]

\* Get*Ring under r.mu.Lock(): the double-check, then create and insert.
CreateIfAbsent(reg, hp, m, key) ==
    IF reg[m][key] # 0
    THEN [registry |-> reg, heap |-> hp, ring |-> reg[m][key], found |-> TRUE]
    ELSE [registry |-> [reg EXCEPT ![m][key] = NextId(hp)],
          heap |-> hp @@ (NextId(hp) :> FreshRing(m)),
          ring |-> NextId(hp),
          found |-> FALSE]

\* ts := int64(sample.TimestampNs): reinterpretation of the unsigned word
\* as a signed one (words are WordBits wide in the model).
Int64OfUint64(u) == IF u >= 2 ^ (WordBits - 1) THEN u - 2 ^ WordBits ELSE u

\* Mutant of MapOfTag: counters are routed to the gauge map.
MapOfTag_CounterAsGauge(tag) ==
    CASE tag = "gauge" -> "gauges"
      [] tag = "counter" -> "gauges"
      [] OTHER -> "histograms"

\* The type switch of processMetric: the registry map a tagged value goes to.
MapOfTag(tag) ==
    CASE tag = "gauge" -> "gauges"
      [] tag = "counter" -> "counters"
      [] OTHER -> "histograms"

\* The value processMetric pushes for a sample (counters are widened with
\* float64(v.Counter), exact for the values of the model).
StoredSample(in) ==
    IF in.tag \in {"gauge", "counter"}
    THEN [Ts |-> Int64OfUint64(in.ts), Val |-> in.val]
    ELSE [Ts |-> Int64OfUint64(in.ts), Bounds |-> in.bounds, Counts |-> in.counts]

\* The samples a stream may carry next. tok numbers the valued samples so
\* that each carries a distinct payload. Tags: the three oneof cases, "none"
\* (Value is nil) and "histnil" (histogram case with a nil *Histogram).
SampleInputs(tok) ==
    {[tag |-> g, key |-> k, ts |-> tok, val |-> tok] :
        g \in {"gauge", "counter"}, k \in Keys}
    \cup {[tag |-> "histogram", key |-> k, ts |-> tok,
           bounds |-> <<10>>, counts |-> <<tok>>] : k \in Keys}
    \cup {[tag |-> "histnil", key |-> k, ts |-> tok] : k \in Keys}
    \cup {[tag |-> "none", key |-> k, ts |-> tok] : k \in {CHOOSE k \in Keys : TRUE}}

Streams == {"i1", "i2"}

NoSample == [tag |-> "nil"]
NoEntry == <<"none", "none">>
EmptySnapshot == [m \in MapNames |-> <<>>]

\* The ingest side with no stream open and nothing recorded.
IngestIdle ==
    /\ regMu = 0
    /\ updates = <<>>
    /\ spc = [s \in Streams |-> "recv"]
    /\ sleft = [s \in Streams |-> 0]
    /\ scur = [s \in Streams |-> NoSample]
    /\ sring = [s \in Streams |-> 0]
    /\ sslot = [s \in Streams |-> 0]
    /\ lpc = "idle" /\ ltodo = {} /\ lcur = NoEntry /\ lidx = 0
    /\ lsnap = EmptySnapshot
    /\ tokens = 0
    /\ args = [e \in Variants \X Keys |-> {}]
    /\ lastRes = [e \in Variants \X Keys |-> NoSample]
    /\ bound = [k \in Keys |-> "none"]
    /\ offPushed = 0
    /\ slowHits = 0
    /\ lquiet = TRUE
    /\ batches = [s \in Streams |-> 0]
    /\ attempts = [s \in Streams |-> 0]
    /\ acks = [s \in Streams |-> 0]

RegIdle ==
    /\ registry = NewRegistry
    /\ heap = <<>>
    /\ IngestIdle

\* ------------------------------------------------------------------- Auth
\* Strings are sequences of characters here, so that Split and TrimSpace
\* have something to do.

\* strings.Split(s, sep) for a one-character sep, cur being the part read so
\* far: the parts between the separators, empty ones included.
RECURSIVE SplitFrom(_, _, _)
SplitFrom(s, sep, cur) ==
    IF s = <<>> THEN <<cur>>
    ELSE IF Head(s) = sep THEN <<cur>> \o SplitFrom(Tail(s), sep, <<>>)
    ELSE SplitFrom(Tail(s), sep, Append(cur, Head(s)))

Split(s, sep) == SplitFrom(s, sep, <<>>)

\* strings.TrimSpace(s): the leading and the trailing white space removed.
RECURSIVE TrimLeft(_)
TrimLeft(s) == IF s # <<>> /\ Head(s) = " " THEN TrimLeft(Tail(s)) ELSE s
RECURSIVE TrimRight(_)
TrimRight(s) ==
    IF s # <<>> /\ s[Len(s)] = " " THEN TrimRight(SubSeq(s, 1, Len(s) - 1)) ELSE s
TrimSpace(s) == TrimRight(TrimLeft(s))

\* NewAuthenticator(), keysEnv being os.Getenv("TELEMETRY_API_KEYS") (the
\* empty string when the variable is unset).
NewAuthenticator(keysEnv) ==
    IF keysEnv # <<>>
    THEN [apiKeys |-> {TrimSpace(p) : p \in Range(Split(keysEnv, ","))} \ {<<>>},
          enabled |-> TRUE]
    ELSE [apiKeys |-> {}, enabled |-> FALSE]

\* Authenticator.ValidateAPIKey
ValidateAPIKey(a, key) == IF ~a.enabled THEN TRUE ELSE key \in a.apiKeys

\* Mutant of Authenticate: any of the x-api-key values may be the valid one.
Authenticate_AnyValue(a, md) ==
    IF ~a.enabled THEN "ok"
    ELSE IF ~md.has THEN "Unauthenticated"
    ELSE IF Len(md.keys) = 0 THEN "Unauthenticated"
    ELSE IF \A i \in DOMAIN md.keys : ~ValidateAPIKey(a, md.keys[i])
         THEN "PermissionDenied"
    ELSE "ok"

\* Authenticator.authenticate: md.has is the ok of FromIncomingContext and
\* md.keys is md.Get("x-api-key"); "ok" stands for the nil error.
Authenticate(a, md) ==
    IF ~a.enabled THEN "ok"
    ELSE IF ~md.has THEN "Unauthenticated"
    ELSE IF Len(md.keys) = 0 THEN "Unauthenticated"
    ELSE IF ~ValidateAPIKey(a, md.keys[1]) THEN "PermissionDenied"
    ELSE "ok"

\* A stream that has not come in.
NoReq == [result |-> "none"]

\* -------------------------------------------------------------------- Hub
Clients == {"c1", "c2"}
NoClient == "nobody"

\* The filters a subscribe message may carry (msg.Subs).
Filters == {<<>>, <<[Service |-> "s1", Name |-> "x"]>>}

\* Registry.LatestSnapshot() with no ingest running: the latest of every
\* ring that has one.
LatestSnapshotNow(reg, hp) ==
    [m \in MapNames |->
        [k \in {q \in RegKeys : reg[m][q] # 0 /\ hp[reg[m][q]].idx # 0} |->
            IF m = "histograms" THEN HistLatest(hp[reg[m][k]]).s
                                ELSE Latest(hp[reg[m][k]]).s]]

\* The keys of a filter: MetricKey{Service: sub.Service, Name: sub.Metric}
\* for each sub of client.subs.
FilterKeys(f) == {f[i] : i \in DOMAIN f}

\* What buildClientMessage returns when json.Marshal fails: the error is
\* discarded and data is nil.
NilMsg == [type |-> "nil"]

\* The JSON object written for an entry of map m: {"ts", "val"} for a gauge
\* or a counter, {"ts", "bounds", "counts"} for a histogram.
WireEntry(m, e) ==
    IF m = "histograms"
    THEN [ts |-> e.Ts, bounds |-> e.Bounds, counts |-> e.Counts]
    ELSE [ts |-> e.Ts, val |-> e.Val]

\* convertGauges, convertCounters, convertHistograms: a map keyed by
\* key.String() built in the iteration order of a Go map, which is not
\* specified; where two keys have the same string the one visited last stays.
\* The set of the maps that can come out.
ConvertAll(m, entries) ==
    LET strs == {KeyString(k) : k \in DOMAIN entries}
        vals(s) == {WireEntry(m, entries[k]) :
                       k \in {q \in DOMAIN entries : KeyString(q) = s}}
    IN  {g \in [strs -> UNION {vals(s) : s \in strs}] :
            \A s \in strs : g[s] \in vals(s)}

\* The range over client.subs: every subscribed key that the snapshot map
\* holds is entered under key.String(); a later subscription overwrites an
\* earlier one with the same string.
ConvertSubs(m, f, entries) ==
    LET hit == {i \in DOMAIN f : f[i] \in DOMAIN entries}
        strs == {KeyString(f[i]) : i \in hit}
        last(s) == CHOOSE i \in hit :
                      /\ KeyString(f[i]) = s
                      /\ \A j \in hit : KeyString(f[j]) = s => j <= i
    IN  [s \in strs |-> WireEntry(m, entries[f[last(s)]])]

\* Whether encoding/json can encode the entry of map m.
Encodable(m, e) ==
    IF m = "histograms"
    THEN \A i \in DOMAIN e.bounds : e.bounds[i] # NonFinite
    ELSE e.val # NonFinite

\* data, _ := json.Marshal(obj): nil when a value cannot be encoded.
Marshal(obj) ==
    IF \A m \in MapNames : \A s \in DOMAIN obj[m] : Encodable(m, obj[m][s])
    THEN obj
    ELSE NilMsg

\* The rest of buildClientMessage once len(client.subs) == 0 has been
\* evaluated to isEmpty, with client.subs being f: the set of the values it
\* may return.
BuildAfterLen(isEmpty, f, snap, now) ==
    LET choices(m) == IF isEmpty THEN ConvertAll(m, snap[m])
                                 ELSE {ConvertSubs(m, f, snap[m])}
    IN  {Marshal([type |-> "snapshot", timestamp |-> now,
                  gauges |-> g, counters |-> c, histograms |-> h]) :
            g \in choices("gauges"), c \in choices("counters"),
            h \in choices("histograms")}

\* buildClientMessage under client.subMu.RLock(), client.subs being f: with
\* no subscriptions every entry of the snapshot, otherwise the subscribed
\* ones.  The set of the values it may return.
BuildClientMessage(f, snap, now) == BuildAfterLen(Len(f) = 0, f, snap, now)

\* time.Now().UnixNano() read during the tick numbered tick, elapsed clock
\* units after the tick fired, where at most skew units go by within one
\* pass of broadcastSnapshot (the next tick is later than that).
Now(tick, elapsed, skew) == tick * (skew + 1) + elapsed

\* The record of a call of buildClientMessage that has not happened.
NoBuild ==
    [f0 |-> <<>>, f1 |-> <<>>, snap |-> EmptySnapshot, tick |-> 0, now |-> 0,
     msg |-> NilMsg, done |-> FALSE]

\* Mutant of SubMuWritable: the write lock is granted while a reader holds
\* the mutex.
SubMuWritable_Always(holder, c) == TRUE

\* c.subMu.Lock() in readPump of client c returns only while no
\* buildClientMessage holds c.subMu.RLock().
SubMuWritable(holder, c) == holder # c

\* Mutant of SetSubs: the subscriptions are appended to the old ones.
SetSubs_Append(old, f) == old \o f

\* c.subs = msg.Subs
SetSubs(old, f) == f

\* Mutant of HandleControl: the type of the message is not looked at.
HandleControl_NoTypeCheck(old, msg) == IF msg.ok THEN SetSubs(old, msg.subs) ELSE old

\* readPump on an inbound message: msg.ok is whether json.Unmarshal returned
\* nil; the filter after the message, old being the filter before it.
HandleControl(old, msg) ==
    IF msg.ok /\ msg.type = "subscribe" THEN SetSubs(old, msg.subs) ELSE old

\* The inbound messages over a set of filters: the subscribe messages, a
\* message of another type that carries subscriptions, and one that
\* json.Unmarshal rejects after it has stored the type.
Inbound(filters) ==
    {[ok |-> TRUE, type |-> "subscribe", subs |-> f] : f \in filters}
    \cup {[ok |-> TRUE, type |-> "unsubscribe", subs |-> f] :
             f \in {CHOOSE g \in filters : g # <<>>}}
    \cup {[ok |-> FALSE, type |-> "subscribe", subs |-> <<>>]}

\* Mutant of UnregisterCase: the channel is closed but the client stays in
\* the map.
UnregisterCase_NoDelete(cl, cls, c) ==
    IF c \in cl
    THEN [clients |-> cl, closed |-> [cls EXCEPT ![c] = TRUE], didClose |-> TRUE]
    ELSE [clients |-> cl, closed |-> cls, didClose |-> FALSE]

\* Mutant of UnregisterCase: delete and close without looking the client up.
UnregisterCase_NoLookup(cl, cls, c) ==
    [clients |-> cl \ {c}, closed |-> [cls EXCEPT ![c] = TRUE], didClose |-> TRUE]

\* The bytes of a message, a character or a token each: json.Marshal writes
\* one JSON object, with no line break in it (it escapes the control
\* characters of strings); the type member is kept apart for the receiver.
Bytes(msg) == <<"{", msg.type, ToString(msg), "}">>

\* Mutant of FrameBytes: no separator is written between the messages.
RECURSIVE FrameBytes_NoSeparator(_)
FrameBytes_NoSeparator(written) ==
    IF written = <<>> THEN <<>>
    ELSE Bytes(Head(written)) \o FrameBytes_NoSeparator(Tail(written))

\* The bytes writePump has written to the frame writer w for the messages
\* `written`: w.Write(message) for the first, w.Write("\n") and
\* w.Write(<-c.send) for each of the others.
RECURSIVE FrameBytes(_)
FrameBytes(written) ==
    IF written = <<>> THEN <<>>
    ELSE IF Len(written) = 1 THEN Bytes(written[1])
    ELSE FrameBytes(SubSeq(written, 1, Len(written) - 1))
         \o <<"\n">> \o Bytes(written[Len(written)])

\* JSON.parse(msg) of the dashboard succeeds on a JSON object.
IsJsonObject(part) ==
    /\ Len(part) = 4 /\ part[1] = "{" /\ part[4] = "}"
    /\ \A i \in {2, 3} : part[i] \notin {"{", "}", " ", "\n"}

\* The loop of onmessage over the parts of a frame: a blank part is skipped,
\* a part that does not parse throws out of the loop (the rest of the frame
\* is not looked at), an object of type snapshot goes to the store. The
\* texts of the objects that reach the store, in order.
RECURSIVE Deliver(_)
Deliver(parts) ==
    IF parts = <<>> THEN <<>>
    ELSE IF TrimSpace(Head(parts)) = <<>> THEN Deliver(Tail(parts))
    ELSE IF ~IsJsonObject(TrimSpace(Head(parts))) THEN <<>>
    ELSE (IF TrimSpace(Head(parts))[2] = "snapshot"
          THEN <<TrimSpace(Head(parts))>> ELSE <<>>)
         \o Deliver(Tail(parts))

\* WebSocketClient onmessage: event.data.split('\n') and the loop.
OnMessage(data) == Deliver(Split(data, "\n"))

\* Mutant of UnregisterCase: the client is deleted but its channel is not
\* closed.
UnregisterCase_NoClose(cl, cls, c) ==
    [clients |-> cl \ {c}, closed |-> cls, didClose |-> FALSE]

\* Hub.Run, case client := <-h.unregister, under h.mu.Lock(): the map and
\* the closed flags afterwards, and whether close(client.send) was executed.
UnregisterCase(cl, cls, c) ==
    IF c \in cl
    THEN [clients |-> cl \ {c}, closed |-> [cls EXCEPT ![c] = TRUE], didClose |-> TRUE]
    ELSE [clients |-> cl, closed |-> cls, didClose |-> FALSE]

\* Mutant of Offer: the message goes to the head of the channel.
Offer_AtHead(ch, msg, cap) == IF Len(ch) < cap THEN <<msg>> \o ch ELSE ch

\* Mutant of Offer: a full channel gives up its oldest message for the new one.
Offer_DropOldest(ch, msg, cap) ==
    IF Len(ch) < cap THEN Append(ch, msg) ELSE Append(Tail(ch), msg)

\* select { case client.send <- msg: default: }: the channel after the
\* non-blocking send (a full channel drops the message).
Offer(ch, msg, cap) == IF Len(ch) < cap THEN Append(ch, msg) ELSE ch

\* Mutant of OfferReady: a plain send, which waits while the channel is full.
OfferReady_Blocking(ch, cap) == Len(ch) < cap

\* select { case client.send <- msg: default: }: whether the statement can
\* proceed; with a default case it always can.
OfferReady(ch, cap) == TRUE

\* No call of a read-only operation has been made.
NoCall == [op |-> "none"]

\* ---- the Go agent's Histogram (agent.go)
\* NewHistogram: the default latency bounds, and one count per bound plus the
\* overflow bucket.
HistBounds == <<1, 5, 10, 25, 50, 100, 250, 500, 1000, 2500, 5000, 10000>>
NumBuckets == Len(HistBounds) + 1

\* The goroutines of the agent: request handlers completing a tracked request
\* (TrackRequest -> RecordHistogram -> Record) and the collector (collect ->
\* Snapshot).
Recorders == {"r1", "r2"}
Collector == "col"
AgentGoroutines == Recorders \cup {Collector}

\* A new Histogram with nobody inside it.  mu is the goroutine holding h.mu,
\* local is the collector's copy of the counts; recs (the values whose bucket
\* was incremented, in order) and snaps (the counts each Snapshot returned and
\* the number of increments made when it copied them) are history.
NewAgentHistogram ==
    [counts |-> [i \in 1..NumBuckets |-> 0],
     mu     |-> "none",
     gpc    |-> [g \in AgentGoroutines |-> "idle"],
     gval   |-> [g \in Recorders |-> 0],
     local  |-> [i \in 1..NumBuckets |-> 0],
     recs   |-> <<>>,
     snaps  |-> <<>>]

\* ---- the dashboard's WebSocketClient (ws.ts)
RECONNECT_DELAY == 1000
MAX_RECONNECT_DELAY == 30000

\* The singleton wsClient as constructed: no socket, no timer handle, no
\* stored subscriptions.  socks are the WebSocket objects created so far
\* (readyState, and as history the subscribe messages sent on each), ws the
\* index of this.ws (0: null), reconnectTimeout the handle stored (0: null),
\* pending the timers set and neither cleared nor fired.  History: timerSeq
\* numbers the timers, closes counts the close events since the last open
\* event, wait is the delay of the timer set last, calls counts the calls of
\* the public methods, down says disconnect() was the last of connect() and
\* disconnect(), and settled that every socket had closed when it was called.
NewWebSocketClient ==
    [socks            |-> <<>>,
     ws               |-> 0,
     reconnectDelay   |-> RECONNECT_DELAY,
     reconnectTimeout |-> 0,
     subscriptions    |-> <<>>,
     connected        |-> FALSE,
     pending          |-> {},
     timerSeq         |-> 0,
     closes           |-> 0,
     wait             |-> 0,
     calls            |-> 0,
     down             |-> FALSE,
     settled          |-> FALSE]

\* NewHub and no connection yet.
HubOnly ==
    /\ hclients = {}
    /\ bchan = <<>>
    /\ runpc = "select" /\ runarg = NoClient /\ runmsg = NilMsg
    /\ cpc = [c \in Clients |-> "none"]
    /\ rp = [c \in Clients |-> "off"]
    /\ wp = [c \in Clients |-> "off"]
    /\ conn = [c \in Clients |-> "open"]
    /\ send = [c \in Clients |-> <<>>]
    /\ closed = [c \in Clients |-> FALSE]
    /\ subs = [c \in Clients |-> <<>>]
    /\ bpc = "idle" /\ bsnap = EmptySnapshot /\ btodo = {}
    /\ ticks = 0
    /\ hpanic = FALSE
    /\ wbuf = [c \in Clients |-> <<>>]
    /\ wn = [c \in Clients |-> 0]
    /\ drops = [c \in Clients |-> 0]
    /\ closes = [c \in Clients |-> 0]
    /\ unregs = [c \in Clients |-> 0]
    /\ offered = [c \in Clients |-> <<>>]
    /\ rejected = [c \in Clients |-> 0]
    /\ taken = [c \in Clients |-> 0]
    /\ wire = [c \in Clients |-> <<>>]
    /\ bcur = NoClient /\ bempty = FALSE /\ belapsed = 0
    /\ built = [c \in Clients |-> NoBuild]
    /\ ctl = [c \in Clients |-> <<>>]
    /\ mainpc = "wait" /\ sigTicks = 0
    /\ wsaw = [c \in Clients |-> [mb |-> <<>>, closed |-> FALSE]]
    /\ wbytes = [c \in Clients |-> <<>>]
    /\ call = NoCall
    /\ agent = NewAgentHistogram
    /\ wsc = NewWebSocketClient

\* The hub with the authenticator of an unset TELEMETRY_API_KEYS.
HubIdle ==
    /\ HubOnly
    /\ apiKeys = NewAuthenticator(<<>>).apiKeys
    /\ enabled = NewAuthenticator(<<>>).enabled
    /\ areq = [s \in Streams |-> NoReq]

\* ------------------------------------------------- Spec: sequential pushes
\* The n-th call pushes a sample stamped n whose value is n or 0.
InputsAt(n) == {[Ts |-> n, Val |-> v] : v \in {n, 0}}

Writers == {"w1", "w2"}

ConcIdle ==
    /\ started = 0
    /\ wpc = [w \in Writers |-> "idle"]
    /\ wslot = [w \in Writers |-> 0]
    /\ wsample = [w \in Writers |-> ZeroSample]
    /\ wfield = [w \in Writers |-> "none"]
    /\ rpc = "idle" /\ rop = "none" /\ ridx = 0 /\ rpos = 0
    /\ rres = [samples |-> <<>>, ok |-> FALSE]
    /\ rseen = <<>>

Init ==
    /\ \E c \in 1..MaxCap : ring = NewRing(c)
    /\ pushed = <<>>
    /\ ConcIdle
    /\ RegIdle
    /\ HubIdle

\* One whole Ring.Push(s) call.
DoPush ==
    /\ Len(pushed) < MaxPush
    /\ \E s \in InputsAt(Len(pushed) + 1) :
          /\ ring' = Push(ring, s)
          /\ pushed' = Append(pushed, s)
    /\ UNCHANGED <<concVars, regVars, hubVars>>

Next == DoPush

Spec == Init /\ [][Next]_vars

\* The last n elements of a sequence.
LastN(seq, n) == SubSeq(seq, Len(seq) - n + 1, Len(seq))

\* C1: after N sequential pushes to a ring of capacity C, Len() = min(N, C),
\* Count() = N, and Latest() is (last pushed sample, true) when N > 0 and
\* (zero sample, false) when N = 0.
C1_LenCountLatest ==
    LET N == Len(pushed) IN
    /\ RingLen(ring) = Min(N, ring.size)
    /\ Count(ring) = N
    /\ Latest(ring) = IF N > 0 THEN [s |-> pushed[N], ok |-> TRUE]
                               ELSE [s |-> ZeroSample, ok |-> FALSE]

\* C1 witness: a ring that has wrapped (more pushes than capacity).
C1_Witness ==
    /\ Len(pushed) > ring.size
    /\ Latest(ring).ok /\ Latest(ring).s = pushed[Len(pushed)]

\* C2: with no concurrent writer, SnapshotLast(k) is exactly the last
\* min(k, |S|, C) pushed samples, oldest first, for every k >= 0.
C2_SnapshotLastWindow ==
    \A k \in 0..(MaxPush + 4) :
        SnapshotLast(ring, k) =
            LastN(pushed, Min(k, Min(Len(pushed), ring.size)))

\* C2 witness: values 1..6 pushed into a ring of capacity 4, SnapshotLast(10)
\* is 3,4,5,6.
C2_Witness ==
    /\ ring.size = 4
    /\ pushed = [n \in 1..6 |-> [Ts |-> n, Val |-> n]]
    /\ SnapshotLast(ring, 10) = [j \in 1..4 |-> [Ts |-> j + 2, Val |-> j + 2]]

\* ------------------------------- SpecConc: one writer, one racing reader
\* Push is not atomic: the index is incremented first (idx.Add), then the
\* slot is stored with a plain, unsynchronised two-word store. The reader
\* loads idx atomically and then copies slots with plain loads.
InitConc ==
    /\ ring = NewRing(ConcCap)
    /\ pushed = <<>>
    /\ ConcIdle
    /\ RegIdle
    /\ HubIdle

OtherField(f) == IF f = "Ts" THEN "Val" ELSE "Ts"

\* Push line 1: i := r.idx.Add(1) - 1. The k-th call carries sample {k, k}.
WReserve(w) ==
    /\ wpc[w] = "idle"
    /\ started < MaxConcPush
    /\ started' = started + 1
    /\ wsample' = [wsample EXCEPT ![w] = [Ts |-> started + 1, Val |-> started + 1]]
    /\ wslot' = [wslot EXCEPT ![w] = ring.idx]
    /\ ring' = IdxAdd(ring)
    /\ wpc' = [wpc EXCEPT ![w] = "write"]
    /\ UNCHANGED <<regVars, hubVars, pushed, wfield, rpc, rop, ridx, rpos, rres, rseen>>

\* Push line 2, first word of r.data[i%r.size] = s (either word may land first).
WStoreFirst(w) ==
    /\ wpc[w] = "write"
    /\ \E f \in {"Ts", "Val"} :
          /\ ring' = FieldWrite(ring, wslot[w], f, wsample[w][f])
          /\ wfield' = [wfield EXCEPT ![w] = OtherField(f)]
    /\ wpc' = [wpc EXCEPT ![w] = "write2"]
    /\ UNCHANGED <<regVars, hubVars, pushed, started, wslot, wsample, rpc, rop, ridx, rpos, rres, rseen>>

\* Push line 2, second word: the slot now holds s and Push returns.
WStoreSecond(w) ==
    /\ wpc[w] = "write2"
    /\ ring' = FieldWrite(ring, wslot[w], wfield[w], wsample[w][wfield[w]])
    /\ pushed' = Append(pushed, wsample[w])
    /\ wpc' = [wpc EXCEPT ![w] = "idle"]
    /\ wfield' = [wfield EXCEPT ![w] = "none"]
    /\ UNCHANGED <<regVars, hubVars, started, wslot, wsample, rpc, rop, ridx, rpos, rres, rseen>>

\* Latest line 1: currentIdx := r.idx.Load(); returns (Sample{}, false) at 0.
RLatestLoad ==
    /\ rpc = "idle"
    /\ rop' = "Latest"
    /\ ridx' = ring.idx
    /\ rseen' = pushed
    /\ IF ring.idx = 0
       THEN /\ rres' = [samples |-> <<ZeroSample>>, ok |-> FALSE]
            /\ rpc' = "done"
       ELSE /\ rres' = [samples |-> <<>>, ok |-> TRUE]
            /\ rpc' = "latest"
    /\ UNCHANGED <<regVars, hubVars, ring, pushed, started, wpc, wslot, wsample, wfield, rpos>>

\* Latest line 2: return r.data[(currentIdx-1)%r.size], true
RLatestRead ==
    /\ rpc = "latest"
    /\ rres' = [samples |-> <<LatestSlot(ring, ridx)>>, ok |-> TRUE]
    /\ rpc' = "done"
    /\ UNCHANGED <<regVars, hubVars, ring, pushed, started, wpc, wslot, wsample, wfield, rop, ridx, rpos, rseen>>

\* SnapshotLast(n) up to the loop: load idx, clamp count, start := idx - count.
RSnapshotLastLoad ==
    /\ rpc = "idle"
    /\ \E n \in 0..(ConcCap + 1) :
          rpos' = ring.idx - SnapshotLastCount(ring, ring.idx, n)
    /\ rop' = "SnapshotLast"
    /\ ridx' = ring.idx
    /\ rseen' = pushed
    /\ rres' = [samples |-> <<>>, ok |-> TRUE]
    /\ rpc' = "loop"
    /\ UNCHANGED <<regVars, hubVars, ring, pushed, started, wpc, wslot, wsample, wfield>>

\* Snapshot() up to the loop: load idx, start := max(0, idx - size).
RSnapshotLoad ==
    /\ rpc = "idle"
    /\ rpos' = SnapshotStart(ring, ring.idx)
    /\ rop' = "Snapshot"
    /\ ridx' = ring.idx
    /\ rseen' = pushed
    /\ rres' = [samples |-> <<>>, ok |-> TRUE]
    /\ rpc' = "loop"
    /\ UNCHANGED <<regVars, hubVars, ring, pushed, started, wpc, wslot, wsample, wfield>>

\* One iteration of the copy loop, or its exit.
RLoopStep ==
    /\ rpc = "loop"
    /\ IF rpos < ridx
       THEN /\ rres' = [rres EXCEPT !.samples = @ \o CopyRange(ring, rpos, rpos + 1)]
            /\ rpos' = rpos + 1
            /\ rpc' = "loop"
       ELSE /\ rpc' = "done"
            /\ UNCHANGED <<rres, rpos>>
    /\ UNCHANGED <<regVars, hubVars, ring, pushed, started, wpc, wslot, wsample, wfield, rop, ridx, rseen>>

\* The reader call has returned; the next call may begin.
RReturn ==
    /\ rpc = "done"
    /\ rpc' = "idle" /\ rop' = "none" /\ ridx' = 0 /\ rpos' = 0
    /\ rres' = [samples |-> <<>>, ok |-> FALSE]
    /\ rseen' = <<>>
    /\ UNCHANGED <<regVars, hubVars, ring, pushed, started, wpc, wslot, wsample, wfield>>

NextConc ==
    \/ WReserve("w1")
    \/ WStoreFirst("w1")
    \/ WStoreSecond("w1")
    \/ RLatestLoad
    \/ RLatestRead
    \/ RSnapshotLastLoad
    \/ RSnapshotLoad
    \/ RLoopStep
    \/ RReturn

SpecConc == InitConc /\ [][NextConc]_vars

\* C3: every sample a reader returns as present is the sample of a Push
\* whose slot store has happened; a reader never returns the content of a
\* slot that was reserved by the index but not yet written.
C3_ReaderSeesOnlyWrittenPushes ==
    (rpc = "done" /\ rres.ok) =>
        \A j \in 1..Len(rres.samples) : rres.samples[j] \in Range(pushed)

\* ------------------- SpecReg: ingest streams, the registry, LatestSnapshot
\* The variant a tagged value belongs to ("histnil" is a histogram case).
VariantOfTag(tag) == IF tag = "histnil" THEN "histogram" ELSE tag

\* An unrecovered panic in a stream handler ends the process.
Alive == \A s \in Streams : spc[s] # "panicked"

\* No ingest in progress: every stream is waiting in Recv or has returned.
Quiescent == \A s \in Streams : spc[s] \in {"recv", "acked", "failed"}

\* Every ingest step ends the quiet period of a running LatestSnapshot.
Touch == lquiet' = (lpc = "idle")

InitReg ==
    /\ ring = NewRing(1)
    /\ pushed = <<>>
    /\ ConcIdle
    /\ RegIdle
    /\ HubIdle

\* The loop of processMetric moves to the next sample, or the batch is done.
NextSample(s) ==
    /\ sleft' = [sleft EXCEPT ![s] = @ - 1]
    /\ spc' = [spc EXCEPT ![s] = IF sleft[s] - 1 = 0 THEN "notify" ELSE "dispatch"]
    /\ scur' = [scur EXCEPT ![s] = NoSample]
    /\ sring' = [sring EXCEPT ![s] = 0]
    /\ sslot' = [sslot EXCEPT ![s] = 0]

\* (maxRecv bounds the batches of a stream whose handling is recorded in
\* batches, attempts and acks; 0: nothing is recorded.)
\* stream.Recv() returns a batch of n samples.
RecvBatch(s, maxRecv) ==
    /\ Alive /\ spc[s] = "recv"
    /\ \E n \in 0..MaxBatch :
          /\ sleft' = [sleft EXCEPT ![s] = n]
          /\ spc' = [spc EXCEPT ![s] = IF n = 0 THEN "notify" ELSE "dispatch"]
    /\ IF maxRecv = 0
       THEN UNCHANGED batches
       ELSE batches[s] < maxRecv /\ batches' = [batches EXCEPT ![s] = @ + 1]
    /\ Touch
    /\ UNCHANGED <<ringVars, concVars, hubVars, attempts, acks, registry, regMu, heap, updates, scur, sring,
                   sslot,  snapVars, regHist>>

\* stream.Recv() returns io.EOF: SendAndClose(&Ack{Ok: true}) and return.
RecvEOF(s, maxRecv) ==
    /\ Alive /\ spc[s] = "recv"
    /\ spc' = [spc EXCEPT ![s] = "acked"]
    /\ acks' = [acks EXCEPT ![s] = IF maxRecv = 0 THEN @ ELSE @ + 1]
    /\ Touch
    /\ UNCHANGED <<ringVars, concVars, hubVars, batches, attempts, registry, regMu, heap, updates, sleft, scur,
                   sring, sslot, snapVars, regHist>>

\* stream.Recv() returns another error: log and return err.
RecvError(s) ==
    /\ Alive /\ spc[s] = "recv"
    /\ spc' = [spc EXCEPT ![s] = "failed"]
    /\ Touch
    /\ UNCHANGED <<ringVars, concVars, hubVars, ingHist, registry, regMu, heap, updates, sleft, scur,
                   sring, sslot, snapVars, regHist>>

\* (inputs are the samples the batch may hold next; maxTok bounds the valued
\* samples of a behaviour.)
\* processMetric, head of the loop body: ts := int64(...), then the type
\* switch. A nil Value matches no case and the sample is skipped.
Dispatch(s, inputs, maxTok) ==
    /\ Alive /\ spc[s] = "dispatch"
    /\ \E in \in inputs :
          IF in.tag = "none"
          THEN /\ NextSample(s)
               /\ UNCHANGED <<scur, tokens>>
          ELSE /\ tokens < maxTok
               /\ tokens' = tokens + 1
               /\ scur' = [scur EXCEPT ![s] = in]
               /\ spc' = [spc EXCEPT ![s] = "get"]
               /\ UNCHANGED sleft
    /\ Touch
    /\ UNCHANGED <<ringVars, concVars, hubVars, ingHist, registry, regMu, heap, updates, sring, sslot, snapVars, args, lastRes, bound, offPushed, slowHits>>

\* The position after Get*Ring returned: Ring.Push or HistogramRing.Push.
PushPc(in) == IF in.tag \in {"gauge", "counter"} THEN "reserve" ELSE "hpush"

\* Get*Ring, first part: lookup under r.mu.RLock(); return the ring if found.
GetFast(s) ==
    /\ Alive /\ spc[s] = "get"
    /\ LET id == registry[MapOfTag(scur[s].tag)][scur[s].key] IN
          IF id # 0
          THEN /\ sring' = [sring EXCEPT ![s] = id]
               /\ spc' = [spc EXCEPT ![s] = PushPc(scur[s])]
          ELSE /\ spc' = [spc EXCEPT ![s] = "create"]
               /\ UNCHANGED sring
    /\ Touch
    /\ UNCHANGED <<ringVars, concVars, hubVars, ingHist, registry, regMu, heap, updates, sleft, scur,
                   sslot, snapVars, regHist>>

\* Get*Ring, second part: r.mu.Lock() (waits for the readers to leave),
\* double-check, create, insert, unlock.
GetSlow(s) ==
    /\ Alive /\ spc[s] = "create"
    /\ regMu = 0
    /\ LET m == MapOfTag(scur[s].tag)
           got == CreateIfAbsent(registry, heap, m, scur[s].key)
       IN  /\ registry' = got.registry
           /\ heap' = got.heap
           /\ sring' = [sring EXCEPT ![s] = got.ring]
           /\ slowHits' = IF got.found THEN Min(slowHits + 1, 1) ELSE slowHits
           /\ bound' = IF bound[scur[s].key] = "none" /\ ~got.found
                       THEN [bound EXCEPT ![scur[s].key] = VariantOfTag(scur[s].tag)]
                       ELSE bound
    /\ spc' = [spc EXCEPT ![s] = PushPc(scur[s])]
    /\ Touch
    /\ UNCHANGED <<ringVars, concVars, hubVars, ingHist, regMu, updates, sleft, scur, sslot, snapVars, tokens, args, lastRes, offPushed>>

\* Ring.Push line 1 on the ring the stream holds: i := r.idx.Add(1) - 1
PushReserve(s) ==
    /\ Alive /\ spc[s] = "reserve"
    /\ LET e == <<scur[s].tag, scur[s].key>> IN
          /\ sslot' = [sslot EXCEPT ![s] = heap[sring[s]].idx]
          /\ heap' = [heap EXCEPT ![sring[s]] = IdxAdd(@)]
          /\ args' = [args EXCEPT ![e] = @ \cup {StoredSample(scur[s])}]
          /\ lastRes' = [lastRes EXCEPT ![e] = StoredSample(scur[s])]
          /\ offPushed' = IF bound[scur[s].key] # e[1]
                          THEN Min(offPushed + 1, 1) ELSE offPushed
    /\ spc' = [spc EXCEPT ![s] = "store"]
    /\ Touch
    /\ UNCHANGED <<ringVars, concVars, hubVars, ingHist, registry, regMu, updates, sleft, scur, sring, snapVars, tokens, bound, slowHits>>

\* Ring.Push line 2: r.data[i%r.size] = s
PushStore(s) ==
    /\ Alive /\ spc[s] = "store"
    /\ heap' = [heap EXCEPT ![sring[s]] = SlotWrite(@, sslot[s], StoredSample(scur[s]))]
    /\ NextSample(s)
    /\ Touch
    /\ UNCHANGED <<ringVars, concVars, hubVars, ingHist, registry, regMu, updates, snapVars,
                   regHist>>

\* ring.Push(buffer.HistogramData{..., v.Histogram.Bounds, ...}): building the
\* argument dereferences v.Histogram; a nil body panics, nothing recovers.
HistogramPush(s) ==
    /\ Alive /\ spc[s] = "hpush"
    /\ LET e == <<"histogram", scur[s].key>> IN
          IF scur[s].tag = "histnil"
          THEN /\ spc' = [spc EXCEPT ![s] = "panicked"]
               /\ UNCHANGED <<heap, sleft, scur, sring, sslot, args, lastRes, offPushed>>
          ELSE /\ heap' = [heap EXCEPT ![sring[s]] = HistPush(@, StoredSample(scur[s]))]
               /\ args' = [args EXCEPT ![e] = @ \cup {StoredSample(scur[s])}]
               /\ lastRes' = [lastRes EXCEPT ![e] = StoredSample(scur[s])]
               /\ offPushed' = IF bound[scur[s].key] # "histogram"
                               THEN Min(offPushed + 1, 1) ELSE offPushed
               /\ NextSample(s)
    /\ Touch
    /\ UNCHANGED <<ringVars, concVars, hubVars, ingHist, registry, regMu, updates, snapVars,
                   tokens, bound, slowHits>>

\* Hub.NotifyUpdate(batch.Service): non-blocking send on h.updates.
NotifyUpdate(s, maxRecv) ==
    /\ Alive /\ spc[s] = "notify"
    /\ updates' = IF Len(updates) < UpdCap THEN Append(updates, "s1") ELSE updates
    /\ spc' = [spc EXCEPT ![s] = "recv"]
    /\ attempts' = [attempts EXCEPT ![s] = IF maxRecv = 0 THEN @ ELSE @ + 1]
    /\ Touch
    /\ UNCHANGED <<ringVars, concVars, hubVars, batches, acks, registry, regMu, heap, sleft, scur, sring,
                   sslot, snapVars, regHist>>

\* The map LatestSnapshot is ranging over: gauges, then counters, then
\* histograms; within one map the order is the map's (any).
CurrentMap(todo) ==
    IF \E e \in todo : e[1] = "gauges" THEN "gauges"
    ELSE IF \E e \in todo : e[1] = "counters" THEN "counters"
    ELSE "histograms"

\* LatestSnapshot: r.mu.RLock() and the three empty result maps.
LsBegin ==
    /\ Alive /\ lpc = "idle"
    /\ regMu' = regMu + 1
    /\ ltodo' = {e \in Entries : registry[e[1]][e[2]] # 0}
    /\ lsnap' = EmptySnapshot
    /\ lpc' = "iter"
    /\ lquiet' = Quiescent
    /\ UNCHANGED <<ringVars, concVars, hubVars, ingHist, registry, heap, updates, streamVars, lcur,
                   lidx, regHist>>

\* The next entry of the range loops. Ring.Latest starts with idx.Load():
\* at 0 the entry is left out. HistogramRing.Latest runs under the ring's lock.
LsVisit ==
    /\ Alive /\ lpc = "iter"
    /\ \E e \in {x \in ltodo : x[1] = CurrentMap(ltodo)} :
          LET r == heap[registry[e[1]][e[2]]] IN
          /\ ltodo' = ltodo \ {e}
          /\ IF e[1] = "histograms"
             THEN /\ lsnap' = IF HistLatest(r).ok
                              THEN [lsnap EXCEPT ![e[1]] = (e[2] :> HistLatest(r).s) @@ @]
                              ELSE lsnap
                  /\ UNCHANGED <<lpc, lcur, lidx>>
             ELSE IF r.idx = 0
                  THEN UNCHANGED <<lpc, lcur, lidx, lsnap>>
                  ELSE /\ lpc' = "read"
                       /\ lcur' = e
                       /\ lidx' = r.idx
                       /\ UNCHANGED lsnap
    /\ UNCHANGED <<ringVars, concVars, hubVars, ingHist, registry, regMu, heap, updates, streamVars,
                   regHist, lquiet>>

\* Ring.Latest line 2: the slot read; snapshot.Gauges[key] = s.
LsRead ==
    /\ Alive /\ lpc = "read"
    /\ lsnap' = [lsnap EXCEPT ![lcur[1]] =
                    (lcur[2] :> LatestSlot(heap[registry[lcur[1]][lcur[2]]], lidx)) @@ @]
    /\ lpc' = "iter"
    /\ lcur' = NoEntry
    /\ lidx' = 0
    /\ UNCHANGED <<ringVars, concVars, hubVars, ingHist, registry, regMu, heap, updates, streamVars,
                   ltodo, regHist, lquiet>>

\* return snapshot, releasing r.mu.RLock() (deferred).
LsEnd ==
    /\ Alive /\ lpc = "iter" /\ ltodo = {}
    /\ regMu' = regMu - 1
    /\ lpc' = "done"
    /\ UNCHANGED <<ringVars, concVars, hubVars, ingHist, registry, heap, updates, streamVars, ltodo,
                   lcur, lidx, lsnap, regHist, lquiet>>

\* The caller has consumed the snapshot; the next call may begin.
LsReturn ==
    /\ Alive /\ lpc = "done"
    /\ lpc' = "idle"
    /\ lsnap' = EmptySnapshot
    /\ lquiet' = TRUE
    /\ UNCHANGED <<ringVars, concVars, hubVars, ingHist, registry, regMu, heap, updates, streamVars,
                   ltodo, lcur, lidx, regHist>>

\* One step of the StreamTelemetry handler of stream s.
StreamNext(s, inputs, maxTok, maxRecv) ==
    \/ RecvBatch(s, maxRecv)
    \/ RecvEOF(s, maxRecv)
    \/ RecvError(s)
    \/ Dispatch(s, inputs, maxTok)
    \/ GetFast(s)
    \/ GetSlow(s)
    \/ PushReserve(s)
    \/ PushStore(s)
    \/ HistogramPush(s)
    \/ NotifyUpdate(s, maxRecv)

\* SpecReg: the ingest streams of two instances run concurrently (the
\* payloads are all alike: the registry never looks at them).
NextReg == \E s \in Streams : StreamNext(s, SampleInputs(1), MaxTokens, 0)

\* SpecSnap: one ingest stream and a caller of LatestSnapshot (the broadcast
\* tick or the exporter) run concurrently.
NextSnap ==
    \/ StreamNext("i1", SampleInputs(tokens + 1), MaxTokens, 0)
    \/ LsBegin
    \/ LsVisit
    \/ LsRead
    \/ LsEnd
    \/ LsReturn

SpecReg == InitReg /\ [][NextReg]_vars

SpecSnap == InitReg /\ [][NextSnap]_vars

\* The LatestSnapshot field that belongs to a variant.
FieldOfVariant(v) ==
    CASE v = "gauge" -> "gauges"
      [] v = "counter" -> "counters"
      [] v = "histogram" -> "histograms"

\* C4: each MetricKey is present in at most one of the three variant maps.
C4_KeyInOneVariantMap ==
    \A k \in Keys : Cardinality({m \in MapNames : registry[m][k] # 0}) <= 1

\* C5: every ingested sample whose variant differs from the variant bound to
\* its key is dropped (no such sample is ever pushed to a ring).
C5_OffendingSamplesDropped == offPushed = 0

\* C6: no stream handler terminates or crashes because of a malformed
\* sample; processing always runs to the end of the batch.
C6_BatchNeverAborted ==
    \A s \in Streams : ~(spc[s] = "panicked" /\ sleft[s] > 0)

\* C7: all callers of Get*Ring for one (variant, key) receive the same ring,
\* exactly one ring is ever created for it, and the ring bound to a key is
\* never replaced or removed.
C7_OneRingPerKey ==
    /\ Cardinality(DOMAIN heap) =
           Cardinality({e \in Entries : registry[e[1]][e[2]] # 0})
    /\ \A e \in Entries : registry[e[1]][e[2]] # 0 => registry[e[1]][e[2]] \in DOMAIN heap
    /\ \A s \in Streams :
           spc[s] \in {"reserve", "store", "hpush"} =>
               sring[s] = registry[FieldOfVariant(VariantOfTag(scur[s].tag))][scur[s].key]

\* C7 witness: a creator lost the race (its double-check found the ring) and
\* both streams now hold the same ring.
C7_Witness ==
    /\ slowHits > 0
    /\ spc["i1"] = "reserve" /\ spc["i2"] = "reserve"
    /\ sring["i1"] = sring["i2"]

\* C8: every value in a returned LatestSnapshot is a sample that was pushed
\* to that metric.
C8_SnapshotValuesWerePushed ==
    lpc = "done" =>
        \A v \in Variants : \A k \in DOMAIN lsnap[FieldOfVariant(v)] :
            lsnap[FieldOfVariant(v)][k] \in args[<<v, k>>]

\* C9: a LatestSnapshot taken while no ingest is in progress maps each key to
\* the most recently pushed sample of that key, in the map of the variant it
\* was pushed as, and has no entry for a key that never received a push.
C9_QuiescentSnapshotIsLatest ==
    (lpc = "done" /\ lquiet) =>
        \A v \in Variants : \A k \in Keys :
            IF lastRes[<<v, k>>] = NoSample
            THEN k \notin DOMAIN lsnap[FieldOfVariant(v)]
            ELSE /\ k \in DOMAIN lsnap[FieldOfVariant(v)]
                 /\ lsnap[FieldOfVariant(v)][k] = lastRes[<<v, k>>]

\* C9 witness: a quiescent snapshot of a gauge that was pushed twice.
C9_Witness ==
    /\ lpc = "done" /\ lquiet
    /\ \E k \in Keys :
          /\ registry["gauges"][k] # 0
          /\ heap[registry["gauges"][k]].idx = 2
          /\ k \in DOMAIN lsnap["gauges"]
          /\ lsnap["gauges"][k] = [Ts |-> 2, Val |-> 2]

\* ------------------------------------------------ SpecHub: the WebSocket hub
\* Hub.Run, the broadcast loop, and for every connection HandleWebSocket,
\* readPump and writePump, each its own goroutine.  h.mu is held for reading
\* by broadcastSnapshot while bpc is "iter"; Hub.Run is the only
\* writer, and a writer that waits keeps new readers out.
runVars == <<runpc, runarg, runmsg>>
bcVars == <<bpc, bsnap, btodo, ticks>>
cliVars == <<cpc, rp, wp, conn, subs>>

InitHub ==
    /\ ring = NewRing(1)
    /\ pushed = <<>>
    /\ ConcIdle
    /\ RegIdle
    /\ HubIdle

ReadLocked == bpc = "iter"
WriterWaiting == runpc \in {"reg", "unreg"}

\* HandleWebSocket up to h.register <- client, where it blocks.
HandleWebSocket(c) ==
    /\ ~hpanic
    /\ cpc[c] = "none"
    /\ cpc' = [cpc EXCEPT ![c] = "registering"]
    /\ send' = [send EXCEPT ![c] = <<>>]
    /\ subs' = [subs EXCEPT ![c] = <<>>]
    /\ UNCHANGED <<ringVars, concVars, regVars, wrVars, drops, extVars, frameHist, authVars, mainVars, dashVars, hubHist, hclients, bchan, runVars, rp, wp, conn,
                   closed, bcVars, hpanic>>

\* Hub.Run receives from h.register; HandleWebSocket goes on and starts the
\* two pumps.
RunRecvRegister(c) ==
    /\ ~hpanic
    /\ runpc = "select"
    /\ cpc[c] = "registering"
    /\ runpc' = "reg"
    /\ runarg' = c
    /\ runmsg' = runmsg
    /\ cpc' = [cpc EXCEPT ![c] = "connected"]
    /\ wp' = [wp EXCEPT ![c] = "wait"]
    /\ rp' = [rp EXCEPT ![c] = "read"]
    /\ UNCHANGED <<ringVars, concVars, regVars, wrVars, drops, extVars, frameHist, authVars, mainVars, dashVars, hubHist, hclients, bchan, conn, send, closed, subs,
                   bcVars, hpanic>>

\* Hub.Run, register case: h.clients[client] = true under h.mu.Lock().
RunRegister ==
    /\ ~hpanic
    /\ runpc = "reg"
    /\ ~ReadLocked
    /\ hclients' = hclients \cup {runarg}
    /\ runpc' = "select"
    /\ runarg' = NoClient
    /\ runmsg' = runmsg
    /\ UNCHANGED <<ringVars, concVars, regVars, wrVars, drops, extVars, frameHist, authVars, mainVars, dashVars, hubHist, bchan, cliVars, send, closed, bcVars, hpanic>>

\* Hub.Run receives from h.unregister; readPump's deferred function goes on
\* to c.conn.Close() and returns.
RunRecvUnregister(c) ==
    /\ ~hpanic
    /\ runpc = "select"
    /\ rp[c] = "unreg"
    /\ runpc' = "unreg"
    /\ runarg' = c
    /\ runmsg' = runmsg
    /\ rp' = [rp EXCEPT ![c] = "done"]
    /\ conn' = [conn EXCEPT ![c] = "closed"]
    /\ UNCHANGED <<ringVars, concVars, regVars, wrVars, drops, extVars, frameHist, authVars, mainVars, dashVars, hubHist, hclients, bchan, cpc, wp, send, closed, subs,
                   bcVars, hpanic>>

\* Hub.Run, unregister case, under h.mu.Lock().
RunUnregister ==
    /\ ~hpanic
    /\ runpc = "unreg"
    /\ ~ReadLocked
    /\ LET res == UnregisterCase(hclients, closed, runarg)
       IN  /\ hclients' = res.clients
           /\ closed' = res.closed
           /\ closes' = [closes EXCEPT ![runarg] = @ + (IF res.didClose THEN 1 ELSE 0)]
           /\ hpanic' = (res.didClose /\ closed[runarg])
    /\ unregs' = [unregs EXCEPT ![runarg] = @ + 1]
    /\ runpc' = "select"
    /\ runarg' = NoClient
    /\ runmsg' = runmsg
    /\ UNCHANGED <<ringVars, concVars, regVars, wrVars, drops, extVars, frameHist, authVars, mainVars, dashVars, offerHist, wireHist, bchan,
                   cliVars, send, bcVars>>

\* Hub.Broadcast(data): a send on the buffered h.broadcast channel.
Broadcast ==
    /\ ~hpanic
    /\ Len(bchan) < BcastCap
    /\ bchan' = Append(bchan, [type |-> "data"])
    /\ UNCHANGED <<ringVars, concVars, regVars, wrVars, drops, extVars, frameHist, authVars, mainVars, dashVars, hubHist, hclients, runVars, cliVars, send, closed,
                   bcVars, hpanic>>

\* Hub.Run receives from h.broadcast.
RunRecvBroadcast ==
    /\ ~hpanic
    /\ runpc = "select"
    /\ bchan # <<>>
    /\ runpc' = "bc"
    /\ runarg' = runarg
    /\ runmsg' = Head(bchan)
    /\ bchan' = Tail(bchan)
    /\ UNCHANGED <<ringVars, concVars, regVars, wrVars, drops, extVars, frameHist, authVars, mainVars, dashVars, hubHist, hclients, cliVars, send, closed, bcVars, hpanic>>

\* Hub.Run, broadcast case: under h.mu.RLock() a non-blocking send to every
\* client of the map.
RunBroadcast(cap) ==
    /\ ~hpanic
    /\ runpc = "bc"
    /\ \A c \in hclients : OfferReady(send[c], cap)
    /\ send' = [c \in Clients |->
                   IF c \in hclients /\ ~closed[c]
                   THEN Offer(send[c], runmsg, cap) ELSE send[c]]
    /\ hpanic' = \E c \in hclients : closed[c]
    /\ runpc' = "select"
    /\ runarg' = NoClient
    /\ runmsg' = NilMsg
    /\ UNCHANGED <<ringVars, concVars, regVars, wrVars, drops, extVars, frameHist, authVars, mainVars, dashVars, hubHist, hclients, bchan, cliVars, closed, bcVars>>

\* readPump: ReadMessage returns msg. A subscribe message that parses
\* replaces the filter under c.subMu.Lock(); any other message is ignored.
\* maxCtl bounds the messages of a client whose handling is recorded (0: none
\* is recorded).
ReadMessage(c, msg, maxCtl) ==
    /\ ~hpanic
    /\ rp[c] = "read"
    /\ conn[c] = "open"
    /\ (msg.ok /\ msg.type = "subscribe") => SubMuWritable(bcur, c)
    /\ subs' = [subs EXCEPT ![c] = HandleControl(@, msg)]
    /\ IF maxCtl = 0
       THEN UNCHANGED ctlHist
       ELSE /\ Len(ctl[c]) < maxCtl
            /\ ctl' = [ctl EXCEPT ![c] = Append(@, msg)]
    /\ UNCHANGED <<ringVars, concVars, regVars, wrVars, drops, extVars, frameHist, authVars, mainVars, buildVars, hubHist,
                   hclients, bchan, runVars, cpc, rp, wp, conn, send, closed,
                   bcVars, hpanic>>

\* readPump: a subscribe message replaces the filter.
ReadSubscribe(c) ==
    \E f \in Filters :
        ReadMessage(c, [ok |-> TRUE, type |-> "subscribe", subs |-> f], 0)

\* readPump: a message that does not parse, or of another type, is ignored.
ReadIgnored(c) ==
    \E msg \in {m \in Inbound(Filters) : ~(m.ok /\ m.type = "subscribe")} :
        ReadMessage(c, msg, 0)

\* readPump: ReadMessage fails (peer gone, read deadline, or the connection
\* was closed by writePump); the loop breaks and the deferred function
\* blocks on c.hub.unregister <- c.
ReadError(c) ==
    /\ ~hpanic
    /\ rp[c] = "read"
    /\ rp' = [rp EXCEPT ![c] = "unreg"]
    /\ UNCHANGED <<ringVars, concVars, regVars, wrVars, drops, extVars, frameHist, authVars, mainVars, dashVars, hubHist, hclients, bchan, runVars, cpc, wp, conn,
                   send, closed, subs, bcVars, hpanic>>

\* writePump: a message is received from c.send and NextWriter opens a
\* frame for it; when NextWriter fails the pump returns (the message is
\* lost) and closes the connection.
WriteRecv(c, rec) ==
    /\ ~hpanic
    /\ wp[c] = "wait"
    /\ send[c] # <<>>
    /\ send' = [send EXCEPT ![c] = Tail(@)]
    /\ taken' = [taken EXCEPT ![c] = IF rec THEN @ + 1 ELSE @]
    /\ wsaw' = [wsaw EXCEPT
                  ![c] = IF rec THEN [mb |-> send[c], closed |-> closed[c]] ELSE @]
    /\ \E ok \in BOOLEAN :
          /\ ok => conn[c] = "open"
          /\ wp' = [wp EXCEPT ![c] = IF ok THEN "batch" ELSE "done"]
          /\ wbuf' = [wbuf EXCEPT ![c] = IF ok THEN <<Head(send[c])>> ELSE <<>>]
          /\ conn' = [conn EXCEPT ![c] = IF ok THEN @ ELSE "closed"]
    /\ UNCHANGED <<ringVars, concVars, regVars, wn, drops, extVars, wbytes, authVars, mainVars, dashVars, lifeHist, offerHist, wire, hclients,
                   bchan, runVars, cpc, rp, closed, subs, bcVars, hpanic>>

\* writePump: n := len(c.send).
WriteLen(c) ==
    /\ ~hpanic
    /\ wp[c] = "batch"
    /\ wn' = [wn EXCEPT ![c] = Len(send[c])]
    /\ wp' = [wp EXCEPT ![c] = "drain"]
    /\ UNCHANGED <<ringVars, concVars, regVars, wbuf, drops, extVars, frameHist, authVars, mainVars, dashVars, hubHist, hclients, bchan, runVars,
                   cpc, rp, conn, send, closed, subs, bcVars, hpanic>>

\* writePump: one round of the batch loop; the next message is received and
\* written to the frame after a newline.
WriteDrain(c, rec) ==
    /\ ~hpanic
    /\ wp[c] = "drain"
    /\ wn[c] > 0
    /\ wn' = [wn EXCEPT ![c] = @ - 1]
    /\ wbuf' = [wbuf EXCEPT ![c] = Append(@, Head(send[c]))]
    /\ send' = [send EXCEPT ![c] = Tail(@)]
    /\ taken' = [taken EXCEPT ![c] = IF rec THEN @ + 1 ELSE @]
    /\ UNCHANGED <<ringVars, concVars, regVars, drops, extVars, frameHist, authVars, mainVars, dashVars, lifeHist, offerHist, wire, hclients,
                   bchan, runVars, cliVars, closed, bcVars, hpanic>>

\* writePump: w.Close() sends the frame; when it fails the pump returns and
\* closes the connection.
WriteFlush(c, rec) ==
    /\ ~hpanic
    /\ wp[c] = "drain"
    /\ wn[c] = 0
    /\ wbuf' = [wbuf EXCEPT ![c] = <<>>]
    /\ \E ok \in BOOLEAN :
          /\ ok => conn[c] = "open"
          /\ wp' = [wp EXCEPT ![c] = IF ok THEN "wait" ELSE "done"]
          /\ conn' = [conn EXCEPT ![c] = IF ok THEN @ ELSE "closed"]
          /\ wire' = [wire EXCEPT ![c] = IF ok /\ rec THEN Append(@, wbuf[c]) ELSE @]
          /\ wbytes' = [wbytes EXCEPT
                          ![c] = IF ok /\ rec THEN Append(@, FrameBytes(wbuf[c])) ELSE @]
    /\ UNCHANGED <<ringVars, concVars, regVars, wn, drops, extVars, wsaw, authVars, mainVars, dashVars, lifeHist, offerHist, taken, hclients,
                   bchan, runVars, cpc, rp, send, closed, subs, bcVars, hpanic>>

\* writePump from the receive of a message to w.Close() as one step, for the
\* specifications that do not look inside a frame: the message is written
\* together with the messages pending behind it; a failed write ends the
\* pump, which closes the connection.
WriteMessages(c) ==
    /\ ~hpanic
    /\ wp[c] = "wait"
    /\ send[c] # <<>>
    /\ send' = [send EXCEPT ![c] = <<>>]
    /\ \E ok \in BOOLEAN :
          /\ ok => conn[c] = "open"
          /\ wp' = [wp EXCEPT ![c] = IF ok THEN "wait" ELSE "done"]
          /\ conn' = [conn EXCEPT ![c] = IF ok THEN @ ELSE "closed"]
    /\ UNCHANGED <<ringVars, concVars, regVars, wrVars, drops, extVars, frameHist, authVars, mainVars, dashVars, hubHist, hclients, bchan, runVars,
                   cpc, rp, closed, subs, bcVars, hpanic>>

\* writePump: the receive reports a closed and drained channel; a close
\* frame is written and the pump returns.
WriteClosed(c) ==
    /\ ~hpanic
    /\ wp[c] = "wait"
    /\ send[c] = <<>>
    /\ closed[c]
    /\ wp' = [wp EXCEPT ![c] = "done"]
    /\ conn' = [conn EXCEPT ![c] = "closed"]
    /\ UNCHANGED <<ringVars, concVars, regVars, wrVars, drops, extVars, frameHist, authVars, mainVars, dashVars, hubHist, hclients, bchan, runVars, cpc, rp, send,
                   closed, subs, bcVars, hpanic>>

\* writePump: the ping ticker fires; a failed ping ends the pump.
WritePing(c) ==
    /\ ~hpanic
    /\ wp[c] = "wait"
    /\ \E ok \in BOOLEAN :
          /\ ok => conn[c] = "open"
          /\ wp' = [wp EXCEPT ![c] = IF ok THEN "wait" ELSE "done"]
          /\ conn' = [conn EXCEPT ![c] = IF ok THEN @ ELSE "closed"]
    /\ UNCHANGED <<ringVars, concVars, regVars, wrVars, drops, extVars, frameHist, authVars, mainVars, dashVars, hubHist, hclients, bchan, runVars, cpc, rp, send,
                   closed, subs, bcVars, hpanic>>

\* StartBroadcastLoop: a tick; broadcastSnapshot takes the registry's
\* LatestSnapshot.
Tick(maxTicks) ==
    /\ ~hpanic
    /\ bpc = "idle"
    /\ ticks < maxTicks
    /\ ticks' = ticks + 1
    /\ bsnap' = LatestSnapshotNow(registry, heap)
    /\ bpc' = "lock"
    /\ belapsed' = 0
    /\ UNCHANGED <<ringVars, concVars, regVars, wrVars, drops, extVars, frameHist, authVars, mainVars, bcur, bempty, built, ctlHist, hubHist, hclients, bchan, runVars, cliVars, send,
                   closed, btodo, hpanic>>

\* broadcastSnapshot: h.mu.RLock(), then the range over h.clients begins.
BroadcastRLock ==
    /\ ~hpanic
    /\ bpc = "lock"
    /\ ~WriterWaiting
    /\ btodo' = hclients
    /\ bpc' = "iter"
    /\ UNCHANGED <<ringVars, concVars, regVars, wrVars, drops, extVars, frameHist, authVars, mainVars, dashVars, hubHist, hclients, bchan, runVars, cliVars, send,
                   closed, bsnap, ticks, hpanic>>

\* broadcastSnapshot: one iteration of the range over h.clients.  The
\* message is built under client.subMu.RLock() and, unless it is nil, offered
\* to the client's mailbox by a non-blocking send; a send on a closed
\* mailbox panics.
BroadcastVisit(cap, rec) ==
    /\ ~hpanic
    /\ bpc = "iter"
    /\ \E c \in btodo :
          /\ OfferReady(send[c], cap)
          /\ btodo' = btodo \ {c}
          /\ \E msg \in BuildClientMessage(subs[c], bsnap, ticks) :
                IF msg = NilMsg
                THEN UNCHANGED <<send, hpanic, offerHist>>
                ELSE /\ IF closed[c]
                        THEN hpanic' = TRUE /\ send' = send
                        ELSE /\ send' = [send EXCEPT ![c] = Offer(@, msg, cap)]
                             /\ hpanic' = hpanic
                     /\ offered' = [offered EXCEPT
                                       ![c] = IF rec THEN Append(@, ticks) ELSE @]
                     /\ rejected' = [rejected EXCEPT
                                        ![c] = IF rec /\ send'[c] = send[c]
                                               THEN @ + 1 ELSE @]
    /\ UNCHANGED <<ringVars, concVars, regVars, wrVars, drops, extVars, frameHist, authVars, mainVars, dashVars, lifeHist, wireHist, hclients,
                   bchan, runVars, cliVars, closed, bpc, bsnap, ticks>>

\* buildClientMessage for the next client of the range: client.subMu.RLock()
\* and the evaluation of len(client.subs) == 0.
BuildBegin ==
    /\ ~hpanic
    /\ bpc = "iter"
    /\ bcur = NoClient
    /\ \E c \in btodo :
          /\ bcur' = c
          /\ bempty' = (Len(subs[c]) = 0)
          /\ built' = [built EXCEPT ![c] = [NoBuild EXCEPT !.f0 = subs[c]]]
    /\ belapsed' = belapsed
    /\ UNCHANGED <<ringVars, concVars, regVars, wrVars, drops, extVars, frameHist, authVars, mainVars, ctlHist, hubHist,
                   hclients, bchan, runVars, cliVars, send, closed, bcVars, hpanic>>

\* The rest of buildClientMessage (the range over client.subs, time.Now(),
\* json.Marshal, the deferred RUnlock) and the non-blocking send of
\* broadcastSnapshot.  The clock has not gone back since it was last read.
\* (skew: the most clock units that go by within one pass; 0: the clock is
\* too coarse to tell two builds of a pass apart.)
BuildEnd(cap, skew) ==
    /\ ~hpanic
    /\ bcur # NoClient
    /\ OfferReady(send[bcur], cap)
    /\ btodo' = btodo \ {bcur}
    /\ bcur' = NoClient
    /\ bempty' = FALSE
    /\ \E e \in Min(belapsed, skew)..skew :
       \E msg \in BuildAfterLen(bempty, subs[bcur], bsnap, Now(ticks, e, skew)) :
          /\ belapsed' = e
          /\ built' = [built EXCEPT
                         ![bcur] = [f0 |-> @.f0, f1 |-> subs[bcur], snap |-> bsnap,
                                    tick |-> ticks, now |-> Now(ticks, e, skew),
                                    msg |-> msg, done |-> TRUE]]
          /\ IF msg = NilMsg
             THEN UNCHANGED <<send, hpanic, offerHist>>
             ELSE /\ IF closed[bcur]
                     THEN hpanic' = TRUE /\ send' = send
                     ELSE /\ send' = [send EXCEPT ![bcur] = Offer(@, msg, cap)]
                          /\ hpanic' = hpanic
                  /\ offered' = [offered EXCEPT ![bcur] = Append(@, ticks)]
                  /\ rejected' = [rejected EXCEPT
                                     ![bcur] = IF send'[bcur] = send[bcur]
                                               THEN @ + 1 ELSE @]
    /\ UNCHANGED <<ringVars, concVars, regVars, wrVars, drops, extVars, frameHist, authVars, mainVars, ctlHist, lifeHist,
                   wireHist, hclients, bchan, runVars, cliVars, closed, bpc, bsnap,
                   ticks>>

\* broadcastSnapshot: the range is over; the deferred h.mu.RUnlock().
BroadcastRUnlock ==
    /\ ~hpanic
    /\ bpc = "iter"
    /\ btodo = {}
    /\ bpc' = "idle"
    /\ bsnap' = EmptySnapshot
    /\ UNCHANGED <<ringVars, concVars, regVars, wrVars, drops, extVars, frameHist, authVars, mainVars, dashVars, hubHist, hclients, bchan, runVars, cliVars, send,
                   closed, btodo, ticks, hpanic>>

NextHub ==
    \/ \E c \in Clients : HandleWebSocket(c)
    \/ \E c \in Clients : RunRecvRegister(c)
    \/ RunRegister
    \/ \E c \in Clients : RunRecvUnregister(c)
    \/ RunUnregister
    \/ Broadcast
    \/ RunRecvBroadcast
    \/ RunBroadcast(MailboxCap)
    \/ \E c \in Clients : ReadSubscribe(c)
    \/ \E c \in Clients : ReadIgnored(c)
    \/ \E c \in Clients : ReadError(c)
    \/ \E c \in Clients : WriteMessages(c)
    \/ \E c \in Clients : WriteClosed(c)
    \/ \E c \in Clients : WritePing(c)
    \/ Tick(MaxTicks)
    \/ BroadcastRLock
    \/ BroadcastVisit(MailboxCap, FALSE)
    \/ BroadcastRUnlock

SpecHub == InitHub /\ [][NextHub]_vars

\* C10: a subscriber's lifecycle is one-shot.  In every step of the hub, a
\* client whose mailbox has been closed (it was unregistered) is not in the
\* live set afterwards, its filter is the same after the step as before, and
\* no send on a closed mailbox has happened.
C10_LifecycleOneShot ==
    [][\A c \in Clients :
          /\ closed[c] => (closed'[c] /\ c \notin hclients' /\ subs'[c] = subs[c])
          /\ closed'[c] => c \notin hclients'
          /\ ~hpanic']_vars

\* A client that had set a filter was unregistered and its mailbox closed;
\* the last tick's broadcastSnapshot, begun afterwards, has visited every
\* live client, and one of them holds a message in its mailbox.
C10_Witness ==
    \E c \in Clients :
        /\ closed[c]
        /\ Len(subs[c]) > 0
        /\ bpc = "iter"
        /\ btodo = {}
        /\ ticks = MaxTicks
        /\ \E d \in hclients : Len(send[d]) > 0

\* --------------------------------- SpecHubOps: Hub.Run under arbitrary events
\* The register and unregister cases of Hub.Run driven by an environment
\* that sends on h.register and h.unregister directly.  As HandleWebSocket
\* does, it registers a client once, when the client is created; it sends
\* any client on h.unregister any number of times, registered or not.  No
\* pump runs, so the mailboxes are never consumed.

\* A new client is sent on h.register and Hub.Run receives it.
EnvRegister(c) ==
    /\ ~hpanic
    /\ runpc = "select"
    /\ cpc[c] = "none"
    /\ cpc' = [cpc EXCEPT ![c] = "connected"]
    /\ runpc' = "reg"
    /\ runarg' = c
    /\ runmsg' = runmsg
    /\ UNCHANGED <<ringVars, concVars, regVars, wrVars, drops, extVars, frameHist, authVars, mainVars, dashVars, hubHist, hclients, bchan, rp, wp, conn, send,
                   closed, subs, bcVars, hpanic>>

\* A client is sent on h.unregister and Hub.Run receives it.
EnvUnregister(c) ==
    /\ ~hpanic
    /\ runpc = "select"
    /\ unregs[c] < MaxUnregs
    /\ runpc' = "unreg"
    /\ runarg' = c
    /\ runmsg' = runmsg
    /\ UNCHANGED <<ringVars, concVars, regVars, wrVars, drops, extVars, frameHist, authVars, mainVars, dashVars, hubHist, hclients, bchan, cliVars, send,
                   closed, bcVars, hpanic>>

NextHubOps ==
    \/ \E c \in Clients : EnvRegister(c)
    \/ \E c \in Clients : EnvUnregister(c)
    \/ RunRegister
    \/ RunUnregister
    \/ Tick(MaxTicks)
    \/ BroadcastRLock
    \/ BroadcastVisit(MailboxCap, FALSE)
    \/ BroadcastRUnlock

SpecHubOps == InitHub /\ [][NextHubOps]_vars

\* C11: when Hub.Run handles an unregister event for a client of the live
\* set, the client leaves the set and its mailbox is closed, by the one
\* close the mailbox ever gets; when the client is not in the live set (it
\* was unregistered before, or it never registered) the live set, the closed
\* flags, the close counts and the mailboxes stay as they are.  No mailbox is
\* ever closed twice and no close or send hits a closed mailbox.
C11_UnregisterOnceIdempotent ==
    [][/\ (runpc = "unreg" /\ runpc' = "select") =>
            IF runarg \in hclients
            THEN /\ hclients' = hclients \ {runarg}
                 /\ closed' = [closed EXCEPT ![runarg] = TRUE]
                 /\ closes' = [closes EXCEPT ![runarg] = 1]
            ELSE UNCHANGED <<hclients, closed, closes, send>>
       /\ \A c \in Clients : closes'[c] <= 1 /\ (closed'[c] <=> closes'[c] = 1)
       /\ ~hpanic']_vars

\* One client was registered and then unregistered twice, its mailbox closed
\* once; another was unregistered without ever having registered; and a tick
\* has run over the live set since.
C11_Witness ==
    \E c, d \in Clients :
        /\ c # d
        /\ cpc[c] = "connected" /\ unregs[c] = 2 /\ closes[c] = 1 /\ closed[c]
        /\ cpc[d] = "none" /\ unregs[d] >= 1 /\ closes[d] = 0 /\ ~closed[d]
        /\ ticks = MaxTicks /\ bpc = "idle"

\* ------------------------------- SpecOverload: ticks against slow consumers
\* The hub with mailboxes of capacity OverCap and up to OverTicks ticks.  A
\* client connects, its write pump runs step by step or not at all, and it
\* disconnects; no subscribe message and no Hub.Broadcast call is made.
\* The offers, their rejections, the receives of the write pump and the
\* frames it writes are recorded.
\* The clients that connect in SpecOverload.
OverClients == {"c1"}

NextOverload ==
    \/ \E c \in OverClients : HandleWebSocket(c)
    \/ \E c \in OverClients : RunRecvRegister(c)
    \/ RunRegister
    \/ \E c \in OverClients : ReadError(c)
    \/ \E c \in OverClients : RunRecvUnregister(c)
    \/ RunUnregister
    \/ \E c \in OverClients : WriteRecv(c, TRUE)
    \/ \E c \in OverClients : WriteLen(c)
    \/ \E c \in OverClients : WriteDrain(c, TRUE)
    \/ \E c \in OverClients : WriteFlush(c, TRUE)
    \/ \E c \in OverClients : WriteClosed(c)
    \/ Tick(OverTicks)
    \/ BroadcastRLock
    \/ BroadcastVisit(OverCap, TRUE)
    \/ BroadcastRUnlock

SpecOverload == InitHub /\ [][NextOverload]_vars

\* The ticks of a sequence of messages.
TicksOf(msgs) == [i \in DOMAIN msgs |-> msgs[i].timestamp]

\* C12: a mailbox never holds more than its capacity K; while the write pump
\* has received nothing, the mailbox holds the messages of the first
\* min(K, T) of the T ticks offered to the client and the other
\* T - min(K, T) offers were not accepted; and a step in which an offer is
\* not accepted leaves the live set and the closed flags as they are, with
\* the client in the live set.
C12_MailboxBoundedDropNewest ==
    [][\A c \in Clients :
          /\ Len(send'[c]) <= OverCap
          /\ taken'[c] = 0 =>
                LET T == Len(offered'[c])
                IN  /\ TicksOf(send'[c]) = SubSeq(offered'[c], 1, Min(OverCap, T))
                    /\ rejected'[c] = T - Min(OverCap, T)
          /\ rejected'[c] > rejected[c] =>
                /\ hclients' = hclients
                /\ closed' = closed
                /\ c \in hclients']_vars

\* OverTicks ticks were offered to a client whose write pump received
\* nothing: OverCap messages are queued, the others were dropped, and the
\* client is still in the live set with its mailbox open.
C12_Witness ==
    \E c \in Clients :
        /\ ticks = OverTicks /\ bpc = "idle"
        /\ offered[c] = [i \in 1..OverTicks |-> i]
        /\ taken[c] = 0
        /\ Len(send[c]) = OverCap
        /\ rejected[c] = OverTicks - OverCap
        /\ c \in hclients /\ ~closed[c]

\* C13: the drop counter of every client equals the number of offers to it
\* that its mailbox did not accept.
C13_DropCounterCountsRejected ==
    \A c \in Clients : drops[c] = rejected[c]

\* SpecOverload with the broadcast goroutine and Hub.Run scheduled fairly;
\* nothing is assumed about the pumps of the clients, which may stall for
\* good.
SpecOverloadLive ==
    /\ SpecOverload
    /\ WF_vars(BroadcastRLock)
    /\ WF_vars(BroadcastVisit(OverCap, TRUE))
    /\ WF_vars(BroadcastRUnlock)
    /\ WF_vars(RunRegister)
    /\ WF_vars(RunUnregister)

\* C14: a tick that has begun always completes: broadcastSnapshot gets the
\* read lock, visits the live set and releases the lock, whatever the
\* mailboxes hold and whether or not any write pump ever runs again.
C14_TickNeverBlocks ==
    (bpc # "idle") ~> (bpc = "idle")

\* More ticks than the mailbox holds have completed while the client's write
\* pump received nothing: the mailbox is full and offers were dropped.
C14_Witness ==
    \E c \in Clients :
        /\ bpc = "idle" /\ ticks > OverCap
        /\ c \in hclients
        /\ Len(send[c]) = OverCap
        /\ taken[c] = 0
        /\ rejected[c] > 0

\* The messages of a sequence of frames, in the order they were written.
RECURSIVE Flatten(_)
Flatten(frames) ==
    IF frames = <<>> THEN <<>> ELSE Head(frames) \o Flatten(Tail(frames))

\* C15: for every client, the snapshot messages written to its connection,
\* frame after frame and inside a batched frame, carry strictly increasing
\* ticks, each of them a tick that was offered to the client: no message is
\* delivered before one of an earlier tick, and none twice.
C15_DeliveredInTickOrder ==
    \A c \in Clients :
        LET out == TicksOf(Flatten(wire[c]))
        IN  /\ \A i, j \in DOMAIN out : i < j => out[i] < out[j]
            /\ \A i \in DOMAIN out : out[i] \in Range(offered[c])

\* A client got a frame that batches two messages and a later frame, and a
\* tick in between was dropped at its full mailbox.
C15_Witness ==
    \E c \in Clients :
        /\ Len(wire[c]) >= 2
        /\ Len(wire[c][1]) >= 2
        /\ rejected[c] > 0
        /\ Len(Flatten(wire[c])) < Len(offered[c])

\* ------------------------------------- Spec: filters and control messages
\* One dashboard client over a registry that ingest has filled and left; the
\* build of a message is in two steps, so that a subscribe message can arrive
\* while buildClientMessage holds the read lock. The connection stays up and
\* the write pump is left out: the messages stay in the mailbox.

DashTicks == 1
MaxCtl == 2

\* processMetric for one sample, start to end: the ring of the key is
\* fetched or created and the value pushed.
ProcessMetric(st, in) ==
    LET m == MapOfTag(in.tag)
        got == CreateIfAbsent(st.registry, st.heap, m, in.key)
    IN  [registry |-> got.registry,
         heap |-> [got.heap EXCEPT
                     ![got.ring] = IF m = "histograms"
                                   THEN HistPush(@, StoredSample(in))
                                   ELSE Push(@, StoredSample(in))]]

\* processMetric for the samples of a sequence, in order.
RECURSIVE ProcessAll(_, _)
ProcessAll(st, ins) ==
    IF ins = <<>> THEN st ELSE ProcessAll(ProcessMetric(st, Head(ins)), Tail(ins))

\* A gauge or counter sample and a histogram sample of the agent.
Scalar(tag, svc, name, v) ==
    [tag |-> tag, key |-> [Service |-> svc, Name |-> name], ts |-> 1, val |-> v]
Histo(svc, name) ==
    [tag |-> "histogram", key |-> [Service |-> svc, Name |-> name], ts |-> 1,
     bounds |-> <<10>>, counts |-> <<1>>]

\* What ingest has received before the dashboard connects: nothing; two
\* gauges; one entry of each kind; a key whose gauge was pushed twice; a gauge
\* that is not a finite number; two keys with the same String().
Loads ==
    {<<>>,
     <<Scalar("gauge", "s1", "a", 1), Scalar("gauge", "s1", "b", 2)>>,
     <<Scalar("gauge", "s1", "a", 1), Scalar("counter", "s1", "b", 2),
       Histo("s1", "a")>>,
     <<Scalar("gauge", "s1", "a", 2), Scalar("gauge", "s1", "a", 1),
       Scalar("counter", "s1", "a", 3)>>,
     <<Scalar("gauge", "s1", "a", NonFinite), Scalar("gauge", "s1", "b", 2)>>,
     <<Scalar("gauge", "s1", "a/b", 1), Scalar("gauge", "s1/a", "b", 2)>>}

\* The filters a subscribe message of the dashboard may carry.
DashFilters ==
    {<<>>,
     <<[Service |-> "s1", Name |-> "a"]>>,
     <<[Service |-> "s1", Name |-> "x"], [Service |-> "s1", Name |-> "a"]>>}

InitDash ==
    /\ ring = NewRing(1)
    /\ pushed = <<>>
    /\ ConcIdle
    /\ IngestIdle
    /\ HubIdle
    /\ \E ins \in Loads :
          LET st == ProcessAll([registry |-> NewRegistry, heap |-> <<>>], ins)
          IN  registry = st.registry /\ heap = st.heap

NextDash ==
    \/ \E c \in OverClients : HandleWebSocket(c)
    \/ \E c \in OverClients : RunRecvRegister(c)
    \/ RunRegister
    \/ \E c \in OverClients : \E msg \in Inbound(DashFilters) : ReadMessage(c, msg, MaxCtl)
    \/ Tick(DashTicks)
    \/ BroadcastRLock
    \/ BuildBegin
    \/ BuildEnd(MailboxCap, 0)
    \/ BroadcastRUnlock

SpecDash == InitDash /\ [][NextDash]_vars

\* The keys of the snapshot map entries whose String() is s.
KeysOfString(entries, s) == {k \in DOMAIN entries : KeyString(k) = s}

\* Map m of message msg holds exactly the entries of the snapshot whose key
\* is in ks, each under "service/metric" with the values of the snapshot.
HoldsExactly(msg, snap, m, ks) ==
    /\ \A k \in ks \cap DOMAIN snap[m] :
          /\ KeyString(k) \in DOMAIN msg[m]
          /\ msg[m][KeyString(k)] = WireEntry(m, snap[m][k])
    /\ \A s \in DOMAIN msg[m] : KeysOfString(snap[m], s) \cap ks # {}

\* C16: for every snapshot and every filter F, the message built holds every
\* gauge, counter and histogram entry of the snapshot when F is empty, and
\* exactly the entries whose key is in F, under "service/metric", when F is
\* not empty.
C16_MessageFilteredByKeys ==
    \A c \in Clients :
        built[c].done =>
            /\ built[c].msg # NilMsg
            /\ \A m \in MapNames :
                  HoldsExactly(built[c].msg, built[c].snap, m,
                               IF built[c].f1 = <<>>
                               THEN DOMAIN built[c].snap[m]
                               ELSE FilterKeys(built[c].f1))

\* What holds of the code: the same for the snapshots whose values all are
\* finite and whose keys have distinct strings.
PlainSnapshot(snap) ==
    \A m \in MapNames :
        /\ \A k \in DOMAIN snap[m] : Encodable(m, WireEntry(m, snap[m][k]))
        /\ \A k1, k2 \in DOMAIN snap[m] : KeyString(k1) = KeyString(k2) => k1 = k2

C16_PlainSnapshotsFiltered ==
    \A c \in Clients :
        (built[c].done /\ PlainSnapshot(built[c].snap)) =>
            /\ built[c].msg # NilMsg
            /\ \A m \in MapNames :
                  HoldsExactly(built[c].msg, built[c].snap, m,
                               IF built[c].f1 = <<>>
                               THEN DOMAIN built[c].snap[m]
                               ELSE FilterKeys(built[c].f1))

\* C17: a subscribe message and a tick may interleave in any way, and still
\* each message built for a client is the message of one filter value, the
\* one the client had when the build began or the one it had when the build
\* ended; and a client's filter changes only in a step in which the read pump
\* of that client handles an inbound message.
C17_FilterReplacedAtomically ==
    /\ [](\A c \in Clients :
             built[c].done =>
                \/ built[c].msg \in BuildClientMessage(built[c].f0, built[c].snap,
                                                       built[c].now)
                \/ built[c].msg \in BuildClientMessage(built[c].f1, built[c].snap,
                                                       built[c].now))
    /\ [][\A c \in Clients :
             subs'[c] # subs[c] =>
                /\ rp[c] = "read"
                /\ Len(ctl'[c]) = Len(ctl[c]) + 1
                /\ \A d \in Clients \ {c} : ctl'[d] = ctl[d] /\ subs'[d] = subs[d]]_vars

\* A message was built with a filter that selects something and waits in the
\* mailbox; the filter has been replaced since, the tick not yet being over.
C17_Witness ==
    \E c \in Clients :
        /\ bpc = "iter"
        /\ built[c].done /\ built[c].msg # NilMsg /\ built[c].msg.gauges # <<>>
        /\ built[c].f0 # <<>> /\ built[c].f1 = built[c].f0
        /\ send[c] = <<built[c].msg>>
        /\ ctl[c] # <<>>
        /\ subs[c] # built[c].f1

\* Whether an inbound message makes readPump replace the filter.
IsSubscribe(msg) == msg.ok /\ msg.type = "subscribe"

\* Everything of a client and of the hub but the record of the inbound
\* messages.
dashState ==
    <<hclients, bchan, runVars, cliVars, send, closed, bcVars, hpanic, wrVars,
      buildVars, registry, heap>>

\* C18: when the read pump handles a subscribe message whose filter is the
\* one of the subscribe message it handled just before, nothing changes: the
\* client is in the state one subscribe left it in, and the messages a tick
\* builds for it are those of that filter; for every filter, the empty one
\* included.
C18_SubscribeTwiceAsOnce ==
    [][\A c \in Clients :
          (/\ Len(ctl[c]) > 0
           /\ Len(ctl'[c]) = Len(ctl[c]) + 1
           /\ IsSubscribe(ctl[c][Len(ctl[c])])
           /\ ctl'[c][Len(ctl'[c])] = ctl[c][Len(ctl[c])])
          => /\ dashState' = dashState
             /\ \A now \in 1..DashTicks :
                   BuildClientMessage(subs'[c], LatestSnapshotNow(registry, heap), now)
                   = BuildClientMessage(ctl[c][Len(ctl[c])].subs,
                                        LatestSnapshotNow(registry, heap), now)]_vars

\* The same subscribe message, with a filter that selects something, was
\* handled twice in a row, and a tick has built a message after it.
C18_Witness ==
    \E c \in Clients :
        /\ Len(ctl[c]) = 2
        /\ IsSubscribe(ctl[c][1]) /\ ctl[c][2] = ctl[c][1]
        /\ ctl[c][1].subs # <<>>
        /\ built[c].done /\ built[c].f0 = ctl[c][1].subs
        /\ built[c].msg # NilMsg /\ built[c].msg.gauges # <<>>

\* C19: an inbound message that does not parse, or whose type is not
\* "subscribe", leaves the filter, the mailbox and the connected state of the
\* client as they were; a subscribe message that parses makes its
\* subscriptions the filter, whatever they are; and nothing else changes the
\* filter.
C19_OnlySubscribeReplacesFilter ==
    [][\A c \in Clients :
          /\ Len(ctl'[c]) = Len(ctl[c]) + 1 =>
                LET msg == ctl'[c][Len(ctl'[c])]
                IN  /\ subs'[c] = IF IsSubscribe(msg) THEN msg.subs ELSE subs[c]
                    /\ send'[c] = send[c]
                    /\ closed'[c] = closed[c]
                    /\ (c \in hclients') = (c \in hclients)
                    /\ <<cpc'[c], rp'[c], wp'[c], conn'[c]>>
                       = <<cpc[c], rp[c], wp[c], conn[c]>>
          /\ subs'[c] # subs[c] =>
                /\ Len(ctl'[c]) = Len(ctl[c]) + 1
                /\ IsSubscribe(ctl'[c][Len(ctl'[c])])]_vars

\* A registered client with a filter that selects something and a message in
\* its mailbox has had a message that is not a subscribe message handled.
C19_Witness ==
    \E c \in Clients :
        /\ Len(ctl[c]) = 2
        /\ IsSubscribe(ctl[c][1]) /\ ctl[c][1].subs # <<>>
        /\ ~IsSubscribe(ctl[c][2]) /\ ctl[c][2].subs # subs[c]
        /\ subs[c] = ctl[c][1].subs
        /\ send[c] # <<>>
        /\ c \in hclients /\ ~closed[c]

\* ---------------------------------------------- Spec: end of a connection
\* SpecOverload with the goroutines that end a connection scheduled: the
\* broadcast goroutine and Hub.Run as in SpecOverloadLive; Hub.Run's select
\* takes a pending send on h.unregister; and the read pump of a client, whose
\* ReadMessage fails once the connection has been closed on this side,
\* returns from it. Nothing is assumed of the peer or of the write pump.
SpecLife ==
    /\ SpecOverloadLive
    /\ \A c \in OverClients : WF_vars(RunRecvUnregister(c))
    /\ \A c \in OverClients : WF_vars(conn[c] = "closed" /\ ReadError(c))

\* The write pump of c has returned on a failed write (it has closed the
\* connection), or the read pump of c has left its loop on a read error.
PumpStopped(c) ==
    \/ wp[c] = "done" /\ conn[c] = "closed" /\ rp[c] # "off"
    \/ rp[c] = "unreg"

\* C20: when the write pump of a client stops on a failed or timed out
\* write, or its read pump on a read error, the client is eventually
\* disconnected, and exactly once: it is out of h.clients, its mailbox has
\* been closed, by one close; and from then on no tick offers it a message.
C20_StoppedPumpDisconnectsOnce ==
    /\ \A c \in OverClients :
          PumpStopped(c) ~> (c \notin hclients /\ closed[c] /\ closes[c] = 1)
    /\ [](\A c \in Clients : closes[c] <= 1 /\ ~hpanic)
    /\ [][\A c \in Clients :
             closed[c] => /\ closed'[c] /\ c \notin hclients'
                          /\ offered'[c] = offered[c]]_vars

\* The write pump took a message that never reached the connection, the
\* client was disconnected by one unregister event, and the last tick, which
\* is over, offered it nothing.
C20_Witness ==
    \E c \in OverClients :
        /\ wp[c] = "done" /\ taken[c] > Len(Flatten(wire[c]))
        /\ c \notin hclients /\ closed[c] /\ closes[c] = 1 /\ unregs[c] = 1
        /\ offered[c] # <<>>
        /\ offered[c][Len(offered[c])] < ticks
        /\ bpc = "idle"

\* ---------------------------------------------------- Spec: shutdown
\* main from <-sigChan to its return, next to one dashboard connection, the
\* hub and the broadcast loop. When main has returned the process is over
\* and no goroutine takes another step.

\* main: a signal arrives on sigChan.
MainSignal ==
    /\ mainpc = "wait"
    /\ mainpc' = "grpc"
    /\ sigTicks' = ticks
    /\ UNCHANGED <<ringVars, concVars, regVars, hclients, bchan, runVars, cliVars,
                   send, closed, bcVars, hpanic, wrVars, drops, extVars, frameHist, authVars, dashVars, hubHist>>

\* main: grpcServer.GracefulStop(), wsServer.Shutdown(ctx) and
\* metricsServer.Shutdown(ctx) return one after the other, and then main.
\* None of them touches the hub, the broadcast loop or a connection that
\* was upgraded to a WebSocket.
MainStop ==
    /\ mainpc \in {"grpc", "ws", "metrics"}
    /\ mainpc' = CASE mainpc = "grpc" -> "ws"
                   [] mainpc = "ws" -> "metrics"
                   [] OTHER -> "exited"
    /\ UNCHANGED <<ringVars, concVars, regVars, hclients, bchan, runVars, cliVars,
                   send, closed, bcVars, hpanic, wrVars, drops, extVars, frameHist, authVars, sigTicks, dashVars,
                   hubHist>>

\* The process is running.
Running == mainpc # "exited"

\* wsServer accepts connections until its Shutdown.
Listening == mainpc \in {"wait", "grpc", "ws"}

NextShutdown ==
    \/ MainSignal
    \/ MainStop
    \/ Listening /\ \E c \in OverClients : HandleWebSocket(c)
    \/ Running /\ \E c \in OverClients : RunRecvRegister(c)
    \/ Running /\ RunRegister
    \/ Running /\ \E c \in OverClients : ReadError(c)
    \/ Running /\ \E c \in OverClients : RunRecvUnregister(c)
    \/ Running /\ RunUnregister
    \/ Running /\ \E c \in OverClients : WriteMessages(c)
    \/ Running /\ \E c \in OverClients : WriteClosed(c)
    \/ Running /\ Tick(OverTicks)
    \/ Running /\ BroadcastRLock
    \/ Running /\ BroadcastVisit(OverCap, FALSE)
    \/ Running /\ BroadcastRUnlock

SpecShutdown == InitHub /\ [][NextShutdown]_vars

\* C21: once the shutdown signal has arrived no further tick is fired, and
\* when the shutdown is over the mailbox of every client that was still
\* registered has been closed and its write pump has returned.
C21_ShutdownStopsTicksClosesMailboxes ==
    /\ mainpc # "wait" => ticks = sigTicks
    /\ mainpc = "exited" =>
          \A c \in Clients :
              /\ c \notin hclients
              /\ cpc[c] # "none" => closed[c] /\ wp[c] \in {"off", "done"}

\* ------------------------------------------------- Spec: one ingest stream
\* The StreamTelemetry handler of one stream, with its batches, notifications
\* and acknowledgments recorded. The histograms of a batch include one shaped
\* as the Go agent's NewHistogram shapes them: one count more than bounds.

MaxRecv == 2

\* The histogram sample of the Go agent: counts has len(bounds) + 1 entries.
AgentHistogram(k) ==
    [tag |-> "histogram", key |-> k, ts |-> 1, bounds |-> <<10>>, counts |-> <<1, 0>>]

IngestInputs == SampleInputs(1) \cup {AgentHistogram(k) : k \in Keys}

\* The handler is inside the loop body, between Recv and the return of
\* NotifyUpdate.
InBatch(s) ==
    spc[s] \in {"dispatch", "get", "create", "reserve", "store", "hpush", "notify"}

NextIngest == StreamNext("i1", IngestInputs, MaxTokens, MaxRecv)

SpecIngest == InitReg /\ [][NextIngest]_vars

\* C22: for every batch received there is one call of NotifyUpdate, made
\* when every sample of the batch has been pushed; the call returns whether
\* or not h.updates has room, and the handler is back at Recv.
C22_OneNotificationPerBatch ==
    \A s \in Streams :
        /\ attempts[s] = IF InBatch(s) THEN batches[s] - 1 ELSE batches[s]
        /\ spc[s] = "notify" => sleft[s] = 0 /\ ENABLED NotifyUpdate(s, MaxRecv)

\* What holds of the code: the same for the batches that processMetric gets
\* through; the batch it panics in is never notified.
C22_CompletedBatchesNotified ==
    \A s \in Streams :
        /\ attempts[s] = IF InBatch(s) \/ spc[s] = "panicked"
                         THEN batches[s] - 1 ELSE batches[s]
        /\ spc[s] = "notify" => sleft[s] = 0 /\ ENABLED NotifyUpdate(s, MaxRecv)

\* The handler of stream s has returned, or has died.
Ended(s) == spc[s] \in {"acked", "failed", "panicked"}

\* C23: a stream ends in one of two ways: on end-of-stream with one
\* Ack{ok: true}, every batch received before having been processed and
\* notified; or on a transport error with that error returned and no Ack.
C23_StreamEndsAckOrError ==
    \A s \in Streams :
        /\ Ended(s) => spc[s] \in {"acked", "failed"}
        /\ acks[s] = IF spc[s] = "acked" THEN 1 ELSE 0
        /\ spc[s] = "acked" => attempts[s] = batches[s]
        /\ spc[s] = "failed" => attempts[s] = batches[s]

\* What holds of the code: a handler that has not panicked ends in one of the
\* two ways, and once it has ended it stores nothing more and what is stored
\* stays.
C23_ReturnedStreamsAckOrError ==
    /\ [](\A s \in Streams :
             /\ acks[s] = IF spc[s] = "acked" THEN 1 ELSE 0
             /\ spc[s] \in {"acked", "failed"} => attempts[s] = batches[s])
    /\ [][\A s \in {"i1"} :
             /\ (spc[s] = "recv" /\ spc'[s] \in {"acked", "failed"})
                   => UNCHANGED <<registry, heap, updates>>
             /\ Ended(s) => UNCHANGED <<registry, heap, updates, spc>>]_vars

\* C24: every sample held by a histogram ring has as many counts as bounds.
C24_StoredHistogramsAligned ==
    \A k \in RegKeys :
        registry["histograms"][k] # 0 =>
            LET r == heap[registry["histograms"][k]]
            IN  \A i \in DOMAIN r.data :
                    Len(r.data[i].Counts) = Len(r.data[i].Bounds)

\* ------------------------------------------------- Spec: authentication
\* The authenticator main builds from TELEMETRY_API_KEYS, the keys added and
\* removed through its methods, and one stream that passes through
\* StreamInterceptor to the StreamTelemetry handler. (AddAPIKey and
\* RemoveAPIKey have no caller in the repository and no lock; they are
\* taken as calls that do not overlap a request.)

EnvLen == 3

\* The values of TELEMETRY_API_KEYS: the strings of up to EnvLen characters
\* over a key character, the separator and a blank.
EnvValues ==
    UNION {[1..n -> {"a", ",", " "}] : n \in 0..EnvLen}

\* The keys a caller adds, removes or presents.
KeyA == <<"a">>
KeyB == <<"b">>

\* The metadata a stream may come with.
Metadata ==
    {[has |-> FALSE, keys |-> <<>>]}
    \cup {[has |-> TRUE, keys |-> ks] :
            ks \in {<<>>, <<KeyA>>, <<KeyB>>, <<KeyA, KeyB>>, <<KeyB, KeyA>>, <<<<>>>>}}

InitAuth ==
    /\ ring = NewRing(1)
    /\ pushed = <<>>
    /\ ConcIdle
    /\ RegIdle
    /\ HubOnly
    /\ \E env \in EnvValues :
          /\ apiKeys = NewAuthenticator(env).apiKeys
          /\ enabled = NewAuthenticator(env).enabled
    /\ areq = [s \in Streams |-> NoReq]

\* Authenticator.AddAPIKey(key)
AddAPIKey(key) ==
    /\ apiKeys' = apiKeys \cup {key}
    /\ enabled' = TRUE
    /\ UNCHANGED <<ringVars, concVars, regVars, hclients, bchan, runVars, cliVars,
                   send, closed, bcVars, hpanic, wrVars, drops, extVars, frameHist, areq, mainVars,
                   dashVars, hubHist>>

\* Authenticator.RemoveAPIKey(key)
RemoveAPIKey(key) ==
    /\ apiKeys' = apiKeys \ {key}
    /\ UNCHANGED <<ringVars, concVars, regVars, hclients, bchan, runVars, cliVars,
                   send, closed, bcVars, hpanic, wrVars, drops, extVars, frameHist, enabled, areq,
                   mainVars, dashVars, hubHist>>

\* The stream interceptor on stream s coming in with metadata md: the error
\* of authenticate is returned, or the handler is invoked.
StreamInterceptor(s, md) ==
    /\ areq[s] = NoReq
    /\ areq' = [areq EXCEPT
                  ![s] = [md |-> md, enabled |-> enabled, apiKeys |-> apiKeys,
                          result |-> Authenticate([apiKeys |-> apiKeys,
                                                   enabled |-> enabled], md)]]
    /\ UNCHANGED <<ringVars, concVars, regVars, hclients, bchan, runVars, cliVars,
                   send, closed, bcVars, hpanic, wrVars, drops, extVars, frameHist, apiKeys, enabled,
                   mainVars, dashVars, hubHist>>

\* handler(srv, ss) runs for the streams authenticate returned nil for.
HandlerInvoked(s) == areq[s].result = "ok"

NextAuth ==
    \/ \E key \in {KeyA, KeyB} : AddAPIKey(key)
    \/ \E key \in {KeyA, KeyB} : RemoveAPIKey(key)
    \/ \E md \in Metadata : StreamInterceptor("i1", md)
    \/ HandlerInvoked("i1") /\ StreamNext("i1", {Scalar("gauge", "s1", "x", 1)}, 1, 1)

SpecAuth == InitAuth /\ [][NextAuth]_vars

\* The stream has left no trace: its handler is where it starts and the
\* registry is empty.
Untouched(s) ==
    /\ spc[s] = "recv" /\ batches[s] = 0
    /\ registry = NewRegistry /\ heap = <<>> /\ updates = <<>>

C26_NoKeysMeansDisabled ==
    /\ apiKeys = {} =>
          \A md \in Metadata :
              Authenticate([apiKeys |-> apiKeys, enabled |-> enabled], md) = "ok"
    /\ enabled => apiKeys # {}

\* ------------------------------------------------ Spec: batched frames
\* SpecOverload with the end of readPump in two steps, so that the write pump
\* can run between close(client.send) and c.conn.Close().

\* Hub.Run receives the client from h.unregister; readPump goes on to its
\* c.conn.Close().
RunRecvUnregisterOpen(c) ==
    /\ ~hpanic
    /\ runpc = "select"
    /\ rp[c] = "unreg"
    /\ runpc' = "unreg"
    /\ runarg' = c
    /\ runmsg' = runmsg
    /\ rp' = [rp EXCEPT ![c] = "closing"]
    /\ UNCHANGED <<ringVars, concVars, regVars, wrVars, drops, extVars, frameHist, authVars,
                   mainVars, dashVars, hubHist, hclients, bchan, cpc, wp, conn, send,
                   closed, subs, bcVars, hpanic>>

\* readPump: the deferred c.conn.Close().
ReadConnClose(c) ==
    /\ ~hpanic
    /\ rp[c] = "closing"
    /\ rp' = [rp EXCEPT ![c] = "done"]
    /\ conn' = [conn EXCEPT ![c] = "closed"]
    /\ UNCHANGED <<ringVars, concVars, regVars, wrVars, drops, extVars, frameHist, authVars,
                   mainVars, dashVars, hubHist, hclients, bchan, runVars, cpc, wp,
                   send, closed, subs, bcVars, hpanic>>

NextFrames ==
    \/ \E c \in OverClients : HandleWebSocket(c)
    \/ \E c \in OverClients : RunRecvRegister(c)
    \/ RunRegister
    \/ \E c \in OverClients : ReadError(c)
    \/ \E c \in OverClients : RunRecvUnregisterOpen(c)
    \/ RunUnregister
    \/ \E c \in OverClients : ReadConnClose(c)
    \/ \E c \in OverClients : WriteRecv(c, TRUE)
    \/ \E c \in OverClients : WriteLen(c)
    \/ \E c \in OverClients : WriteDrain(c, TRUE)
    \/ \E c \in OverClients : WriteFlush(c, TRUE)
    \/ \E c \in OverClients : WriteClosed(c)
    \/ Tick(OverTicks)
    \/ BroadcastRLock
    \/ BroadcastVisit(OverCap, TRUE)
    \/ BroadcastRUnlock

SpecFrames == InitHub /\ [][NextFrames]_vars

IsPrefix(a, b) == Len(a) <= Len(b) /\ SubSeq(b, 1, Len(a)) = a

\* C27: the messages that wait in the mailbox when the write pump receives
\* go into one frame, in mailbox order, a line break between two of them and
\* nowhere else; splitting the frame at the line breaks gives the receiver
\* those messages, each once and in that order; and so it is when the
\* mailbox has been closed with messages still in it.
C27_BatchedFrameRoundTrips ==
    /\ [](\A c \in Clients :
             /\ Len(wbytes[c]) = Len(wire[c])
             /\ \A i \in DOMAIN wire[c] :
                   /\ wire[c][i] # <<>>
                   /\ OnMessage(wbytes[c][i])
                      = [j \in DOMAIN wire[c][i] |-> Bytes(wire[c][i][j])])
    /\ [][\A c \in Clients :
             wire'[c] # wire[c] =>
                /\ wire'[c] = Append(wire[c], wbuf[c])
                /\ IsPrefix(wsaw[c].mb, wbuf[c])]_vars

\* The write pump found two messages in a mailbox that was already closed,
\* and the frame that reached the connection holds those two.
C27_Witness ==
    \E c \in OverClients :
        /\ wsaw[c].closed /\ Len(wsaw[c].mb) = 2
        /\ wp[c] = "wait"
        /\ wire[c] # <<>> /\ wire[c][Len(wire[c])] = wsaw[c].mb
        /\ Len(OnMessage(wbytes[c][Len(wbytes[c])])) = 2

\* ------------------------------------ Spec: several writers of one Ring
\* Two stream handlers that carry the same metric key get the same *Ring
\* from the registry and call Push on it from their own goroutines.
NextMulti == \E w \in Writers : WReserve(w) \/ WStoreFirst(w) \/ WStoreSecond(w)

SpecMulti == InitConc /\ [][NextMulti]_vars

\* The sample carried by the Push that reserved index i.
ReservedSample(i) == [Ts |-> i + 1, Val |-> i + 1]

\* Every Push that was started has returned.
AllPushesComplete == \A w \in Writers : wpc[w] = "idle"

\* C28: with several writers pushing to one ring, under every interleaving,
\* once all N pushes have completed Count() is N, the window holds exactly
\* the samples of the last min(N, C) reservations, oldest first, and
\* Latest() returns the sample of the push that reserved the highest index.
C28_MultiWriterWindowIsLastReservations ==
    AllPushesComplete =>
        LET N == started IN
        /\ Count(ring) = N
        /\ Snapshot(ring) = [j \in 1..Min(N, ring.size) |->
                                ReservedSample(N - Min(N, ring.size) + j - 1)]
        /\ N > 0 => Latest(ring) = [s |-> ReservedSample(N - 1), ok |-> TRUE]

\* The parts of C28 that the atomic r.idx.Add(1) does give: two pushes in
\* flight never hold the same index, the index never decreases, and it
\* counts the pushes that were started.
C28_ReservationsDistinctAndCounted ==
    /\ [](\A w1, w2 \in Writers :
             (w1 # w2 /\ wpc[w1] # "idle" /\ wpc[w2] # "idle")
                => wslot[w1] # wslot[w2])
    /\ [](Count(ring) = started)
    /\ [][ring'.idx >= ring.idx]_vars

\* ------------------------------------- windows read under a single writer
\* C29: with one writer pushing while a reader runs, every window returned
\* by Snapshot or SnapshotLast lists its samples in push order: no sample is
\* placed before a sample that was pushed earlier, also when the writer
\* overwrites a slot after the reader has loaded the write index. (Stated
\* for reads that loaded the index while no Push was between its reservation
\* and its store, and for samples stored whole by a completed Push: slots
\* reserved and not yet stored are the subject of C3.)
C29_WindowsInPushOrder ==
    (rpc = "done" /\ rop \in {"Snapshot", "SnapshotLast"} /\ Len(rseen) = ridx) =>
        \A j, k \in 1..Len(rres.samples) :
            (/\ j < k
             /\ rres.samples[j] \in Range(pushed)
             /\ rres.samples[k] \in Range(pushed))
                => rres.samples[j].Ts <= rres.samples[k].Ts

\* ------------------------------------------ Spec: the messages of a tick
\* SpecDash with two dashboard connections and a clock that may advance
\* between two calls of buildClientMessage of the same pass.
MaxSkew == 1

NextTick ==
    \/ \E c \in Clients : HandleWebSocket(c)
    \/ \E c \in Clients : RunRecvRegister(c)
    \/ RunRegister
    \/ \E c \in Clients : \E msg \in Inbound(DashFilters) : ReadMessage(c, msg, 0)
    \/ Tick(DashTicks)
    \/ BroadcastRLock
    \/ BuildBegin
    \/ BuildEnd(MailboxCap, MaxSkew)
    \/ BroadcastRUnlock

SpecTick == InitDash /\ [][NextTick]_vars

\* Messages were built for c1 and c2 in the same tick, their filters being
\* equal and not changing during the builds.
SameTickEqualFilters(c1, c2) ==
    /\ built[c1].done /\ built[c2].done
    /\ built[c1].tick = built[c2].tick
    /\ built[c1].f0 = built[c1].f1
    /\ built[c2].f0 = built[c2].f1
    /\ built[c1].f1 = built[c2].f1

\* C30: all messages built in one tick derive from one LatestSnapshot and
\* carry one timestamp, so two subscribers with equal filters get identical
\* messages for that tick. (Stated for snapshots whose values are finite and
\* whose keys have distinct strings; the others are the subject of C16.)
C30_OneSnapshotOneTimestampPerTick ==
    \A c1, c2 \in Clients :
        (SameTickEqualFilters(c1, c2) /\ PlainSnapshot(built[c1].snap)) =>
            /\ built[c1].snap = built[c2].snap
            /\ built[c1].msg.timestamp = built[c2].msg.timestamp
            /\ built[c1].msg = built[c2].msg

\* What holds of the code: one snapshot per tick, and messages that are
\* equal in everything but the timestamp.
C30_OneSnapshotPerTick ==
    \A c1, c2 \in Clients :
        (SameTickEqualFilters(c1, c2) /\ PlainSnapshot(built[c1].snap)) =>
            /\ built[c1].snap = built[c2].snap
            /\ [built[c1].msg EXCEPT !.timestamp = 0]
               = [built[c2].msg EXCEPT !.timestamp = 0]

\* ------------------------------------------- one message per subscriber
\* The pass of broadcastSnapshot ends in this step.
PassEnds == bpc = "iter" /\ bpc' = "idle"

\* The ticks of the messages offered to c that are tick n.
OffersOf(c, n) == {i \in DOMAIN offered[c] : offered[c][i] = n}

\* C31: in every tick each client of the live set is offered exactly one
\* snapshot message, also when the registry is empty or the client's filter
\* matches nothing, and the message enters the mailbox if and only if the
\* mailbox is not full at that moment.
C31_EveryTickOffersOneMessage ==
    /\ [][PassEnds => \A c \in hclients : Cardinality(OffersOf(c, ticks)) = 1]_vars
    /\ [][\A c \in Clients :
             offered'[c] # offered[c] =>
                (Len(send[c]) < MailboxCap <=> Len(send'[c]) = Len(send[c]) + 1)]_vars

\* What holds of the code: the same while every value of the snapshot can be
\* encoded (the other snapshots are the subject of C16).
C31_EncodableTicksOfferOneMessage ==
    /\ [][(PassEnds /\ PlainSnapshot(bsnap))
             => \A c \in hclients : Cardinality(OffersOf(c, ticks)) = 1]_vars
    /\ [][\A c \in Clients :
             offered'[c] # offered[c] =>
                (Len(send[c]) < MailboxCap <=> Len(send'[c]) = Len(send[c]) + 1)]_vars

\* ------------------------------------- Spec: the notification channel
\* The stream handler of SpecIngest together with the goroutines that hold
\* the hub: Hub.Run (register, unregister and broadcast cases) and the
\* broadcast loop.  These are all the statements that touch h.updates or
\* could receive from it.
NextNotify ==
    \/ NextIngest
    \/ \E c \in OverClients : HandleWebSocket(c)
    \/ \E c \in OverClients : RunRecvRegister(c)
    \/ RunRegister
    \/ \E c \in OverClients : ReadError(c)
    \/ \E c \in OverClients : RunRecvUnregister(c)
    \/ RunUnregister
    \/ Broadcast
    \/ RunRecvBroadcast
    \/ RunBroadcast(MailboxCap)
    \/ Tick(MaxTicks)
    \/ BroadcastRLock
    \/ BroadcastVisit(MailboxCap, FALSE)
    \/ BroadcastRUnlock

\* Every goroutine that can take a step is scheduled.
SpecNotify == InitReg /\ [][NextNotify]_vars /\ WF_vars(NextNotify)

\* C32: h.updates is drained: it does not stay full for ever, so that after
\* any number of batches a later notification is accepted; and a
\* notification neither starts a tick nor changes what a tick does.
C32_UpdatesDrained ==
    /\ []<>(Len(updates) < UpdCap)
    /\ [][updates' # updates => UNCHANGED bcVars]_vars

\* What holds of the code: no step takes anything out of h.updates, and a
\* step that puts a notification in leaves the broadcast loop as it is.
C32_UpdatesNeverReceived ==
    [][/\ IsPrefix(updates, updates')
       /\ updates' # updates => UNCHANGED bcVars]_vars

\* ------------------------------------------- Spec: Registry.Snapshot
SnapshotLastN == 2   \* the 100 of ring.SnapshotLast(100), scaled as RegCap is
SnapTokens == 3      \* most valued samples ingested in one behaviour of SpecBounded

\* The variables of the hub, which the calls of this part leave alone.
hubRest == <<hclients, bchan, runpc, runarg, runmsg, cpc, rp, wp, conn, send, closed, subs,
             bpc, bsnap, btodo, ticks, hpanic, wrVars, drops, frameHist, authVars,
             mainVars, dashVars, hubHist>>

\* Registry.Snapshot() under r.mu.RLock() with no ingest running: of every
\* gauge and counter ring SnapshotLast(100), of every histogram ring that
\* has one the Latest().
RegistrySnapshot(reg, hp) ==
    [m \in MapNames |->
        IF m = "histograms"
        THEN [k \in {q \in RegKeys : reg[m][q] # 0 /\ hp[reg[m][q]].idx # 0} |->
                 HistLatest(hp[reg[m][k]]).s]
        ELSE [k \in {q \in RegKeys : reg[m][q] # 0} |->
                 SnapshotLast(hp[reg[m][k]], SnapshotLastN)]]

\* A call of Registry.Snapshot() while every stream handler waits in Recv.
CallRegistrySnapshot ==
    /\ Alive /\ Quiescent /\ lpc = "idle"
    /\ call' = [op |-> "Snapshot", known |-> registry, pushes |-> args,
                result |-> RegistrySnapshot(registry, heap)]
    /\ UNCHANGED <<ringVars, concVars, regVars, hubRest, agent, wsc>>

NextBounded ==
    \/ StreamNext("i1", SampleInputs(tokens + 1), SnapTokens, 0)
    \/ CallRegistrySnapshot

SpecBounded == InitReg /\ [][NextBounded]_vars

\* The samples of a set in the order of their timestamps (the k-th valued
\* sample of SpecBounded is stamped k).
RECURSIVE SortedByTs(_)
SortedByTs(S) ==
    IF S = {} THEN <<>>
    ELSE LET first == CHOOSE s \in S : \A o \in S : s.Ts <= o.Ts
         IN  <<first>> \o SortedByTs(S \ {first})

\* The samples a snapshot lists for key k of map m, oldest first (a histogram
\* entry is one sample, a missing entry none).
SamplesListed(snap, m, k) ==
    IF k \notin DOMAIN snap[m] THEN <<>>
    ELSE IF m = "histograms" THEN <<snap[m][k]>>
    ELSE snap[m][k]

\* The entry of (variant v, key k) holds the most recent min(n, Len()) samples
\* pushed to that ring, oldest first.
ListsMostRecent(c, v, k, n) ==
    LET all == SortedByTs(c.pushes[<<v, k>>])
    IN  SamplesListed(c.result, FieldOfVariant(v), k)
        = LastN(all, Min(n, Min(Len(all), RegCap)))

\* C33: the bounded snapshot holds, for every known metric of every variant,
\* the min(n, Len()) most recent samples of the metric, oldest first, n being
\* the per-metric bound.
C33_BoundedSnapshotMostRecent ==
    call.op = "Snapshot" =>
        \A v \in Variants : \A k \in Keys :
            call.known[FieldOfVariant(v)][k] # 0
                => ListsMostRecent(call, v, k, SnapshotLastN)

\* What holds of the code: the same for gauges and counters, and one sample,
\* the most recent, for a histogram.
C33_ScalarsBoundedHistogramsLatest ==
    call.op = "Snapshot" =>
        \A v \in Variants : \A k \in Keys :
            call.known[FieldOfVariant(v)][k] # 0
                => ListsMostRecent(call, v, k,
                                   IF v = "histogram" THEN 1 ELSE SnapshotLastN)

\* ------------------------------ Spec: ListServices and ListMetrics
MaxRings == 3   \* most rings created in one behaviour of SpecList

\* Keys of two services; "b" is a metric of both.
ListKeys ==
    {[Service |-> "s1", Name |-> "a"], [Service |-> "s1", Name |-> "b"],
     [Service |-> "s1/a", Name |-> "b"]}

\* The services ListMetrics may be asked for: the two of ListKeys and one
\* that has no metric.
ListArgs == {"s1", "s1/a", "s2"}

\* The keys of registry map m.
MapKeys(reg, m) == {k \in RegKeys : reg[m][k] # 0}

\* `result` of the two functions: the elements of the set `services` or
\* `metrics` appended in the iteration order of a Go map, any order.
InMapOrder(S) ==
    {f \in [1..Cardinality(S) -> S] : \A i, j \in DOMAIN f : f[i] = f[j] => i = j}

\* Registry.ListServices under r.mu.RLock(): the values it may return.
ListServices(reg) ==
    InMapOrder({k.Service : k \in MapKeys(reg, "gauges")}
               \cup {k.Service : k \in MapKeys(reg, "counters")}
               \cup {k.Service : k \in MapKeys(reg, "histograms")})

\* Mutant of ListMetrics: key.Service is not compared with service.
ListMetrics_AnyService(reg, service) ==
    InMapOrder({k.Name : k \in MapKeys(reg, "gauges")}
               \cup {k.Name : k \in MapKeys(reg, "counters")}
               \cup {k.Name : k \in MapKeys(reg, "histograms")})

\* Registry.ListMetrics(service) under r.mu.RLock(): the values it may return.
ListMetrics(reg, service) ==
    InMapOrder({k.Name : k \in {q \in MapKeys(reg, "gauges") : q.Service = service}}
               \cup {k.Name : k \in {q \in MapKeys(reg, "counters") : q.Service = service}}
               \cup {k.Name : k \in {q \in MapKeys(reg, "histograms") : q.Service = service}})

\* GetRing, GetCounterRing or GetHistogramRing for key k, start to end.
GetOrCreate(m, k) ==
    /\ Cardinality(DOMAIN heap) < MaxRings \/ registry[m][k] # 0
    /\ LET got == CreateIfAbsent(registry, heap, m, k)
       IN  registry' = got.registry /\ heap' = got.heap
    /\ UNCHANGED <<ringVars, concVars, hubVars, regMu, updates, streamVars, snapVars,
                   regHist, ingHist, lquiet>>

CallListServices ==
    /\ \E res \in ListServices(registry) :
          call' = [op |-> "ListServices", arg |-> "", result |-> res]
    /\ UNCHANGED <<ringVars, concVars, regVars, hubRest, agent, wsc>>

CallListMetrics(service) ==
    /\ \E res \in ListMetrics(registry, service) :
          call' = [op |-> "ListMetrics", arg |-> service, result |-> res]
    /\ UNCHANGED <<ringVars, concVars, regVars, hubRest, agent, wsc>>

NextList ==
    \/ \E m \in MapNames : \E k \in ListKeys : GetOrCreate(m, k)
    \/ CallListServices
    \/ \E service \in ListArgs : CallListMetrics(service)

SpecList == InitReg /\ [][NextList]_vars

\* The sequence lists exactly the elements of S, each once.
ListsOnce(seq, S) == Range(seq) = S /\ Len(seq) = Cardinality(S)

\* The (map, key) pairs under which the registry holds a ring.
Registered == {e \in MapNames \X RegKeys : registry[e[1]][e[2]] # 0}

\* C34: after any sequence of get-or-create calls ListServices() returns
\* exactly the services that have a ring in some variant map, and
\* ListMetrics(s) exactly the metric names registered under s in some variant
\* map, each name once.  (Stated of the step in which the call returns.)
C34_ListsAreTheRegisteredNames ==
    [][/\ (call' # call /\ call'.op = "ListServices") =>
             ListsOnce(call'.result, {e[2].Service : e \in Registered})
       /\ (call' # call /\ call'.op = "ListMetrics") =>
             ListsOnce(call'.result,
                       {e[2].Name : e \in {x \in Registered :
                                              x[2].Service = call'.arg}})]_vars

\* ListMetrics("s1") returned two names, one of which is registered under two
\* variants.
C34_Witness ==
    /\ call.op = "ListMetrics" /\ call.arg = "s1" /\ Len(call.result) = 2
    /\ \E k \in ListKeys :
          /\ k.Service = "s1"
          /\ Cardinality({m \in MapNames : registry[m][k] # 0}) >= 2

\* --------------------------------------- Spec: the hub makes progress
\* Two connections, Hub.Run, the read pumps and the broadcast loop with
\* buildClientMessage in two steps (it holds client.subMu between them).
\* Nothing calls Hub.Broadcast, so the broadcast case of Hub.Run is never
\* ready.  The write pumps take no lock and are on no channel the others
\* wait for; they are left out, so the mailboxes fill up.
ProgressTicks == 2   \* most ticks in one behaviour of SpecProgress

NextProgress ==
    \/ \E c \in Clients : HandleWebSocket(c)
    \/ \E c \in Clients : RunRecvRegister(c)
    \/ RunRegister
    \/ \E c \in Clients : ReadSubscribe(c)
    \/ \E c \in Clients : ReadError(c)
    \/ \E c \in Clients : RunRecvUnregister(c)
    \/ RunUnregister
    \/ Tick(ProgressTicks)
    \/ BroadcastRLock
    \/ BuildBegin
    \/ BuildEnd(MailboxCap, 0)
    \/ BroadcastRUnlock

\* The scheduler runs every goroutine that can take a step (weak fairness of
\* the steps of Hub.Run and of the broadcast goroutine that wait for nothing
\* but a lock), and the select of Hub.Run picks among the ready cases at
\* random, so a sender that stays ready is picked in the end (strong
\* fairness of the receives).  Nothing is assumed of the connections.
SpecProgress ==
    /\ InitHub /\ [][NextProgress]_vars
    /\ WF_vars(RunRegister \/ RunUnregister)
    /\ WF_vars(BroadcastRLock \/ BuildBegin \/ BuildEnd(MailboxCap, 0)
                   \/ BroadcastRUnlock)
    /\ \A c \in Clients : SF_vars(RunRecvRegister(c))
    /\ \A c \in Clients : SF_vars(RunRecvUnregister(c))

\* C35: the hub does not deadlock.  Every send on h.register and on
\* h.unregister is received in the end, Hub.Run always comes back to its
\* select, a tick that has begun gets h.mu, visits the live set and releases
\* it, the filter lock taken by buildClientMessage is released, and no send
\* on a closed channel stops the process.
\* (No goroutine stays for ever at the place where it waits: each of the
\* places is left again and again.)
C35_HubDeadlockFree ==
    /\ \A c \in Clients : []<>(cpc[c] # "registering")
    /\ \A c \in Clients : []<>(rp[c] # "unreg")
    /\ []<>(runpc = "select")
    /\ []<>(bpc = "idle")
    /\ []<>(bcur = NoClient)
    /\ []~hpanic

\* A connection handler waits on h.register while Hub.Run, which has taken
\* the unregister send of the other client, waits for h.mu, which the
\* broadcast loop holds together with the filter lock of that client, whose
\* mailbox is full.
C35_Witness ==
    \E c1, c2 \in Clients :
        /\ cpc[c1] = "registering"
        /\ runpc = "unreg" /\ runarg = c2 /\ rp[c2] = "done"
        /\ bpc = "iter" /\ bcur = c2 /\ Len(send[c2]) = MailboxCap

\* ------------------------------------------ Spec: stored timestamps
\* The timestamp_ns values a sample may carry: the ends and the middle of
\* the unsigned range.
Stamps == {0, 1, 2 ^ (WordBits - 1) - 1, 2 ^ (WordBits - 1), 2 ^ WordBits - 1}

\* A gauge, a counter and a histogram sample with each of the timestamps.
StampInputs ==
    {[tag |-> g, key |-> k, ts |-> u, val |-> 1] :
        g \in {"gauge", "counter"}, k \in {CHOOSE k \in Keys : TRUE}, u \in Stamps}
    \cup {[tag |-> "histogram", key |-> k, ts |-> u,
           bounds |-> <<10>>, counts |-> <<1>>] :
             k \in {CHOOSE k \in Keys : TRUE}, u \in Stamps}

NextStamp == StreamNext("i1", StampInputs, MaxTokens, 0)

SpecStamp == InitReg /\ [][NextStamp]_vars

\* The slots of existing rings whose content this step changes.
StoredSlots ==
    {e \in (DOMAIN heap) \X (0..(RegCap - 1)) :
        heap'[e[1]].data[e[2]] # heap[e[1]].data[e[2]]}

\* C36: the timestamp stored in the ring is the timestamp_ns of the sample,
\* for every value of the unsigned 64-bit field, those from 2^63 on included.
C36_StoredTimestampIsSampleTimestamp ==
    [][\A e \in StoredSlots : heap'[e[1]].data[e[2]].Ts = scur["i1"].ts]_vars

\* What holds of the code: the same for the timestamps below 2^63.
C36_TimestampsBelowSignBitStored ==
    [][\A e \in StoredSlots :
          scur["i1"].ts < 2 ^ (WordBits - 1)
             => heap'[e[1]].data[e[2]].Ts = scur["i1"].ts]_vars

\* ------------------------------------------------------------------------
\* The agent's Histogram under concurrent Record and Snapshot (SpecAgent)
\* ------------------------------------------------------------------------
MaxRecords == 2    \* most Record calls in one behaviour of SpecAgent
MaxSnaps == 2      \* most Snapshot calls in one behaviour of SpecAgent

\* The observed values: below, on and between bounds, on and above the last
\* bound, and NonFinite for the values no bound compares >= to (NaN, +Inf).
Observations == {0, 1, 2, 10000, 10001, NonFinite}

\* value <= bound on float64: false whenever value is NaN or +Inf.
FloatLeq(value, b) == value # NonFinite /\ value <= b

\* h.mu.Lock() returns only while nobody holds the mutex.
MuFree_Always(h) == TRUE
MuFree(h) == h.mu = "none"

\* The loop of Record from index i on: the index it increments.
RECURSIVE RecordBucket(_, _)
RecordBucket(value, i) ==
    IF i > Len(HistBounds) THEN NumBuckets
    ELSE IF FloatLeq(value, HistBounds[i]) THEN i
    ELSE RecordBucket(value, i + 1)

\* Record: h.mu.Lock()
RecordLock(g, value) ==
    /\ agent.gpc[g] = "idle"
    /\ Len(agent.recs) + Cardinality({r \in Recorders : agent.gpc[r] = "body"}) < MaxRecords
    /\ MuFree(agent)
    /\ agent' = [agent EXCEPT !.mu = g, !.gpc[g] = "body", !.gval[g] = value]
    /\ UNCHANGED <<ringVars, concVars, regVars, hubRest, call, wsc>>

\* Record: the loop over h.bounds and the increment it ends with.
RecordBody(g) ==
    /\ agent.gpc[g] = "body"
    /\ LET i == RecordBucket(agent.gval[g], 1)
       IN agent' = [agent EXCEPT !.counts[i] = @ + 1,
                                 !.recs = Append(@, agent.gval[g]),
                                 !.gpc[g] = "unlock"]
    /\ UNCHANGED <<ringVars, concVars, regVars, hubRest, call, wsc>>

\* Record: the deferred h.mu.Unlock()
RecordUnlock(g) ==
    /\ agent.gpc[g] = "unlock"
    /\ agent' = [agent EXCEPT !.mu = "none", !.gpc[g] = "idle"]
    /\ UNCHANGED <<ringVars, concVars, regVars, hubRest, call, wsc>>

\* Snapshot: h.mu.Lock()
SnapshotLock ==
    /\ agent.gpc[Collector] = "idle"
    /\ Len(agent.snaps) < MaxSnaps
    /\ MuFree(agent)
    /\ agent' = [agent EXCEPT !.mu = Collector, !.gpc[Collector] = "copy"]
    /\ UNCHANGED <<ringVars, concVars, regVars, hubRest, call, wsc>>

\* Snapshot: copy(counts, h.counts)
SnapshotCopy ==
    /\ agent.gpc[Collector] = "copy"
    /\ agent' = [agent EXCEPT !.local = agent.counts,
                              !.snaps = Append(@, [counts |-> agent.counts,
                                                   at |-> Len(agent.recs),
                                                   done |-> FALSE]),
                              !.gpc[Collector] = "reset"]
    /\ UNCHANGED <<ringVars, concVars, regVars, hubRest, call, wsc>>

\* Snapshot: for i := range h.counts { h.counts[i] = 0 }
SnapshotReset ==
    /\ agent.gpc[Collector] = "reset"
    /\ agent' = [agent EXCEPT !.counts = [i \in 1..NumBuckets |-> 0],
                              !.gpc[Collector] = "return"]
    /\ UNCHANGED <<ringVars, concVars, regVars, hubRest, call, wsc>>

\* Snapshot: the deferred h.mu.Unlock() and the return of the copy.
SnapshotReturn ==
    /\ agent.gpc[Collector] = "return"
    /\ agent' = [agent EXCEPT !.mu = "none",
                              !.snaps[Len(agent.snaps)] =
                                  [counts |-> agent.local,
                                   at |-> agent.snaps[Len(agent.snaps)].at,
                                   done |-> TRUE],
                              !.gpc[Collector] = "idle"]
    /\ UNCHANGED <<ringVars, concVars, regVars, hubRest, call, wsc>>

NextAgent ==
    \/ \E g \in Recorders :
          \/ \E value \in Observations : RecordLock(g, value)
          \/ RecordBody(g)
          \/ RecordUnlock(g)
    \/ SnapshotLock
    \/ SnapshotCopy
    \/ SnapshotReset
    \/ SnapshotReturn

SpecAgent == InitReg /\ [][NextAgent]_vars

\* The bucket of a value as the claim states it: the first bucket whose bound
\* is >= the value, the overflow bucket when there is none.
FirstBucketAtLeast(value) ==
    LET fit == {i \in 1..Len(HistBounds) : value # NonFinite /\ HistBounds[i] >= value}
    IN IF fit = {} THEN NumBuckets
       ELSE CHOOSE i \in fit : \A j \in fit : i <= j

\* The number of recorded values numbered from+1..to that belong to bucket i.
RecordedIn(i, from, to) ==
    Cardinality({k \in (from + 1)..to : FirstBucketAtLeast(agent.recs[k]) = i})

\* Nobody is inside Record or Snapshot.
AgentQuiet == \A g \in AgentGoroutines : agent.gpc[g] = "idle"

\* C37: no observation is lost or double-counted under any interleaving of
\* Record and Snapshot.  Whenever nobody is inside the histogram, every
\* Snapshot so far returned, per bucket, exactly the values recorded since the
\* Snapshot before it, each counted in the first bucket whose bound is >= the
\* value (the overflow bucket when there is none); the counts held are exactly
\* the values recorded since the last Snapshot (so a Snapshot left zeros); and
\* the returned counts plus the held counts add up to the number of Record
\* calls.
C37_HistogramCountsEveryRecordOnce ==
    AgentQuiet =>
        LET n == Len(agent.snaps)
            prev(k) == IF k = 1 THEN 0 ELSE agent.snaps[k - 1].at
            last == IF n = 0 THEN 0 ELSE agent.snaps[n].at
            RECURSIVE Returned(_, _)
            Returned(i, k) == IF k = 0 THEN 0
                              ELSE agent.snaps[k].counts[i] + Returned(i, k - 1)
            RECURSIVE Total(_)
            Total(i) == IF i = 0 THEN 0
                        ELSE Returned(i, n) + agent.counts[i] + Total(i - 1)
        IN /\ \A k \in 1..n : \A i \in 1..NumBuckets :
                 agent.snaps[k].counts[i] = RecordedIn(i, prev(k), agent.snaps[k].at)
           /\ \A i \in 1..NumBuckets :
                 agent.counts[i] = RecordedIn(i, last, Len(agent.recs))
           /\ Total(NumBuckets) = Len(agent.recs)

\* Two Snapshots returned: the first holds a value counted in the overflow
\* bucket, the second found the zeros the first left, and a value recorded
\* after both is still held.
C37_Witness ==
    /\ AgentQuiet
    /\ Len(agent.snaps) = 2 /\ Len(agent.recs) = 2
    /\ agent.snaps[1].at = 1 /\ agent.snaps[1].counts[NumBuckets] = 1
    /\ agent.snaps[2].at = 1 /\ \A i \in 1..NumBuckets : agent.snaps[2].counts[i] = 0
    /\ agent.counts[1] = 1

\* ------------------------------------------------------------------------
\* The dashboard's WebSocketClient (SpecWs)
\* ------------------------------------------------------------------------
\* Every handler runs to completion on the one JavaScript thread, so each is
\* one step; the socket events and the timer arrive in any order.
MaxSockets == 6     \* most WebSocket objects created in one behaviour of SpecWs
MaxUserCalls == 3   \* most calls of connect(), disconnect(), subscribe() in one behaviour

\* The arguments of subscribe().
SubsInputs == {<<>>, <<[service |-> "s1", metric |-> "a"]>>}

\* this.ws?.readyState === WebSocket.OPEN
WsOpen(w) == w.ws # 0 /\ w.socks[w.ws].readyState = "OPEN"

\* connect(); retry records, as history, that the reconnect timer made the call.
WsConnect(w, retry) ==
    IF WsOpen(w) THEN w
    ELSE [w EXCEPT !.socks = Append(@, [readyState |-> "CONNECTING", sent |-> <<>>,
                                        retry |-> retry]),
                   !.ws = Len(w.socks) + 1]

\* subscribe(subscriptions): the message is JSON.stringify({type, subscriptions}).
WsSubscribe(w, subscriptions) ==
    LET w1 == [w EXCEPT !.subscriptions = subscriptions]
    IN IF WsOpen(w)
       THEN [w1 EXCEPT !.socks[w.ws].sent =
                 Append(@, [type |-> "subscribe", subscriptions |-> subscriptions])]
       ELSE w1

\* clearTimeout(this.reconnectTimeout), guarded by the handle being set.
ClearReconnectTimeout(w) ==
    IF w.reconnectTimeout # 0
    THEN [w EXCEPT !.pending = {t \in @ : t.id # w.reconnectTimeout}]
    ELSE w

\* scheduleReconnect()
ScheduleReconnect(w) ==
    LET w1 == ClearReconnectTimeout(w)
        id == w.timerSeq + 1
    IN [w1 EXCEPT !.pending = @ \cup {[id |-> id, delay |-> w.reconnectDelay]},
                  !.reconnectTimeout = id,
                  !.timerSeq = id,
                  !.wait = w.reconnectDelay,
                  !.reconnectDelay = Min(w.reconnectDelay * 2, MAX_RECONNECT_DELAY)]

\* disconnect(): ws.close() moves a connecting or open socket to CLOSING and
\* does nothing to one that is closing or closed.
WsDisconnect(w) ==
    LET w1 == ClearReconnectTimeout(w)
    IN IF w.ws # 0 /\ w.socks[w.ws].readyState \in {"CONNECTING", "OPEN"}
       THEN [w1 EXCEPT !.socks[w.ws].readyState = "CLOSING"]
       ELSE w1

\* A component calls connect().
CallConnect ==
    /\ wsc.calls < MaxUserCalls
    /\ Len(wsc.socks) < MaxSockets
    /\ wsc' = [WsConnect(wsc, FALSE) EXCEPT !.calls = @ + 1, !.down = FALSE, !.settled = FALSE]
    /\ UNCHANGED <<ringVars, concVars, regVars, hubRest, call, agent>>

\* A component calls disconnect().
CallDisconnect ==
    /\ wsc.calls < MaxUserCalls
    /\ wsc' = [WsDisconnect(wsc) EXCEPT
                  !.calls = @ + 1, !.down = TRUE,
                  !.settled = \A i \in 1..Len(wsc.socks) : wsc.socks[i].readyState = "CLOSED"]
    /\ UNCHANGED <<ringVars, concVars, regVars, hubRest, call, agent>>

\* A component calls subscribe(subscriptions).
CallSubscribe(subscriptions) ==
    /\ wsc.calls < MaxUserCalls
    /\ wsc' = [WsSubscribe(wsc, subscriptions) EXCEPT !.calls = @ + 1]
    /\ UNCHANGED <<ringVars, concVars, regVars, hubRest, call, agent>>

\* The open event of socket i: onopen.
OnOpen(i) ==
    /\ i \in 1..Len(wsc.socks)
    /\ wsc.socks[i].readyState = "CONNECTING"
    /\ LET w1 == [wsc EXCEPT !.socks[i].readyState = "OPEN",
                             !.connected = TRUE,
                             !.reconnectDelay = RECONNECT_DELAY,
                             !.closes = 0]
       IN wsc' = IF Len(w1.subscriptions) > 0
                 THEN WsSubscribe(w1, w1.subscriptions)
                 ELSE w1
    /\ UNCHANGED <<ringVars, concVars, regVars, hubRest, call, agent>>

\* The close event of socket i (the connection failed, the server or the
\* network dropped it, or close() completed): onclose.
OnClose(i) ==
    /\ i \in 1..Len(wsc.socks)
    /\ wsc.socks[i].readyState # "CLOSED"
    /\ wsc' = ScheduleReconnect([wsc EXCEPT !.socks[i].readyState = "CLOSED",
                                            !.connected = FALSE,
                                            !.closes = @ + 1])
    /\ UNCHANGED <<ringVars, concVars, regVars, hubRest, call, agent>>

\* A pending timer fires: () => this.connect()
TimerFires(t) ==
    /\ t \in wsc.pending
    /\ Len(wsc.socks) < MaxSockets
    /\ wsc' = WsConnect([wsc EXCEPT !.pending = @ \ {t}], TRUE)
    /\ UNCHANGED <<ringVars, concVars, regVars, hubRest, call, agent>>

NextWs ==
    \/ CallConnect
    \/ CallDisconnect
    \/ \E subscriptions \in SubsInputs : CallSubscribe(subscriptions)
    \/ \E i \in 1..MaxSockets : OnOpen(i) \/ OnClose(i)
    \/ \E t \in wsc.pending : TimerFires(t)

SpecWs == InitReg /\ [][NextWs]_vars

\* C38: after disconnect() the client stays disconnected until connect() is
\* called again: no reconnect timer is pending or scheduled and no socket is
\* created, whatever the order of the close event and disconnect().
C38_DisconnectStaysDisconnected ==
    [][(wsc'.down /\ (wsc.down \/ wsc'.calls # wsc.calls))
          => /\ wsc'.pending = {}
             /\ Len(wsc'.socks) = Len(wsc.socks)]_vars

\* When every socket had already delivered its close event at the time of
\* disconnect(), the client stays disconnected until connect() is called.
C38_DisconnectAfterCloseStaysDisconnected ==
    [][(wsc'.down /\ wsc'.settled /\ (wsc.down \/ wsc'.calls # wsc.calls))
          => /\ wsc'.pending = {}
             /\ Len(wsc'.socks) = Len(wsc.socks)]_vars

\* The delay of the k-th step of the capped exponential backoff.
Backoff(k) == Min(RECONNECT_DELAY * 2 ^ (k - 1), MAX_RECONNECT_DELAY)

\* The step is the open (close) event of socket i.
Opens(i) ==
    /\ i \in 1..Len(wsc.socks)
    /\ wsc.socks[i].readyState = "CONNECTING" /\ wsc'.socks[i].readyState = "OPEN"
Closes(i) ==
    /\ i \in 1..Len(wsc.socks)
    /\ wsc.socks[i].readyState # "CLOSED" /\ wsc'.socks[i].readyState = "CLOSED"

\* The delay stays within the two constants, the timer set at the k-th close
\* event since the last open event waits Backoff(k), an open event resets the
\* delay, and at most one timer is pending.
BackoffHolds ==
    /\ wsc'.reconnectDelay \in RECONNECT_DELAY..MAX_RECONNECT_DELAY
    /\ Cardinality(wsc'.pending) <= 1
    /\ \A i \in 1..MaxSockets :
          /\ Closes(i) => /\ wsc'.wait = Backoff(wsc'.closes)
                          /\ \E t \in wsc'.pending : t.delay = wsc'.wait
          /\ Opens(i) => wsc'.reconnectDelay = RECONNECT_DELAY

\* The subscribe message carrying the stored subscriptions.
Resent == [type |-> "subscribe", subscriptions |-> wsc.subscriptions]

\* C39: the reconnect delay is a capped exponential backoff (within
\* [1000, 30000], the k-th consecutive failure waits min(1000 * 2^(k-1), 30000),
\* reset to 1000 by every open), at most one reconnect timer is pending, and
\* every socket of a reconnect that opens while subscriptions are stored is
\* sent them.
C39_BackoffAndResubscribe ==
    [][/\ BackoffHolds
       /\ \A i \in 1..MaxSockets :
             (Opens(i) /\ wsc.socks[i].retry /\ Len(wsc.subscriptions) > 0)
                => wsc'.socks[i].sent = Append(wsc.socks[i].sent, Resent)]_vars

\* The backoff holds as stated, and a socket that opens, of a reconnect or
\* not, is sent the stored subscriptions when it is the client's current socket.
C39_BackoffAndResubscribeCurrent ==
    [][/\ BackoffHolds
       /\ \A i \in 1..MaxSockets :
             (Opens(i) /\ Len(wsc.subscriptions) > 0 /\ wsc.ws = i)
                => wsc'.socks[i].sent = Append(wsc.socks[i].sent, Resent)]_vars

\* ------------------------------------------------------------------------
\* The Prometheus exporter's percentiles (SpecPct)
\* ------------------------------------------------------------------------
MaxCount == 2    \* largest count of one bucket

\* The histograms passed to calculatePercentiles: ascending bounds, and counts
\* of the same length or one longer (the overflow bucket).
PctBounds == {<<1, 5>>, <<0, 5>>, <<1, 5, 10>>}
PctCounts(bounds) ==
    UNION {[1..n -> 0..MaxCount] : n \in {Len(bounds), Len(bounds) + 1}}

RECURSIVE SumCounts(_)
SumCounts(counts) ==
    IF counts = <<>> THEN 0 ELSE Head(counts) + SumCounts(Tail(counts))

\* uint64(float64(total) * q) for q a number of hundredths.  The products of
\* the model (total below 20) are either exact in float64 or not whole, so
\* the whole part is that of the exact product.
Target(total, hundredths) == (total * hundredths) \div 100

\* The second loop of calculatePercentiles from (1-based) index i on.
RECURSIVE PercentileLoop(_, _, _, _, _, _)
PercentileLoop(bounds, counts, total, i, cumulative, p) ==
    IF i > Len(counts) THEN p
    ELSE LET cum == cumulative + counts[i]
             set(cur, hundredths) ==
                 IF cur = 0 /\ cum >= Target(total, hundredths) /\ i <= Len(bounds)
                 THEN bounds[i] ELSE cur
         IN PercentileLoop(bounds, counts, total, i + 1, cum,
                           [p50 |-> set(p.p50, 50),
                            p95 |-> set(p.p95, 95),
                            p99 |-> set(p.p99, 99)])

NoPercentiles == [p50 |-> 0, p95 |-> 0, p99 |-> 0]

calculatePercentiles(bounds, counts) ==
    IF Len(bounds) = 0 \/ Len(counts) = 0 THEN NoPercentiles
    ELSE IF SumCounts(counts) = 0 THEN NoPercentiles
    ELSE PercentileLoop(bounds, counts, SumCounts(counts), 1, 0, NoPercentiles)

\* UpdateMetrics computes the percentiles of one latency histogram.
CallCalculatePercentiles(bounds, counts) ==
    /\ call' = [op |-> "calculatePercentiles", bounds |-> bounds, counts |-> counts,
                result |-> calculatePercentiles(bounds, counts)]
    /\ call' # call
    /\ UNCHANGED <<ringVars, concVars, regVars, hubRest, agent, wsc>>

NextPct ==
    \E bounds \in PctBounds : \E counts \in PctCounts(bounds) :
        CallCalculatePercentiles(bounds, counts)

SpecPct == InitReg /\ [][NextPct]_vars

\* The cumulative count of the first i buckets.
Cumulative(counts, i) == SumCounts(SubSeq(counts, 1, i))

\* The first bucket whose cumulative count, in hundredths, reaches `part`
\* (0 when none does).
FirstReaching(counts, part) ==
    LET hit == {i \in 1..Len(counts) : Cumulative(counts, i) * 100 >= part}
    IN IF hit = {} THEN 0 ELSE CHOOSE i \in hit : \A j \in hit : i <= j

\* C40: for ascending bounds and any counts, calculatePercentiles returns
\* p50 <= p95 <= p99, each the upper bound of the first bucket whose
\* cumulative count reaches that fraction of the total (checked for the
\* buckets that have an upper bound), and all three 0 when the total is 0.
C40_PercentilesOrderedAndOnBounds ==
    call.op = "calculatePercentiles" =>
        LET total == SumCounts(call.counts)
            r == call.result
            first(hundredths) == FirstReaching(call.counts, total * hundredths)
            onBound(v, hundredths) ==
                first(hundredths) \in 1..Len(call.bounds)
                    => v = call.bounds[first(hundredths)]
        IN IF total = 0 THEN r = NoPercentiles
           ELSE /\ r.p50 <= r.p95 /\ r.p95 <= r.p99
                /\ onBound(r.p50, 50) /\ onBound(r.p95, 95) /\ onBound(r.p99, 99)

\* With positive bounds and nothing counted in an overflow bucket the
\* percentiles are ordered, each is the upper bound of the first bucket whose
\* cumulative count reaches the fraction of the total rounded down to a whole
\* count, and all three are 0 when the total is 0.
C40_PercentilesWithoutOverflow ==
    (/\ call.op = "calculatePercentiles"
     /\ call.bounds[1] > 0
     /\ \A i \in 1..Len(call.counts) : i > Len(call.bounds) => call.counts[i] = 0) =>
        LET total == SumCounts(call.counts)
            r == call.result
            first(hundredths) ==
                FirstReaching(call.counts, 100 * Target(total, hundredths))
        IN IF total = 0 THEN r = NoPercentiles
           ELSE /\ r.p50 <= r.p95 /\ r.p95 <= r.p99
                /\ r.p50 = call.bounds[first(50)]
                /\ r.p95 = call.bounds[first(95)]
                /\ r.p99 = call.bounds[first(99)]

====
